---- MODULE Spec2Model ----
(***************************************************************************)
(* Model of the ziplinee-ci-builder hosted-job entry point                 *)
(* (ciBuilder.RunZiplineeBuildJob) and of the end-of-life reporter         *)
(* (endOfLifeHelper): lifecycle events, log shipping with the slim-log     *)
(* fallback, HandleFatal, the JWT-expiry goroutine and the process exit.   *)
(*                                                                         *)
(* The model covers builder configs in which Git, Version, Manifest and    *)
(* JobName are present (the code dereferences them unconditionally).       *)
(* Tracing (initJaeger, spans) is left out.                                *)
(***************************************************************************)
EXTENDS Integers, Sequences, FiniteSets, TLC

VARIABLES
    cfg,          \* contracts.BuilderConfig: CIServer endpoints, JWT, JobName, Git
    runAsJob,     \* --run-as-job flag
    env,          \* process environment: function from the set names to values
    pc,           \* position of the main goroutine in RunZiplineeBuildJob / HandleFatal
    mode,         \* "run": normal flow, "fatal": inside HandleFatal, "abort": log.Fatal
    heap,         \* allocated contracts.BuildLogStep objects, indexed by address
    buildLog,     \* RunZiplineeBuildJob's buildLog.Steps: sequence of addresses
    arg,          \* buildLog.Steps of the BuildLog value handed to the reporter
    buildStatus,  \* RunZiplineeBuildJob's local buildStatus
    sent,         \* history: reporter calls made by the main goroutine, in order
    logResult,    \* history: value returned by SendBuildJobLogEvent
    exitCode,     \* process exit code, -1 while the process runs
    timer,        \* JWT-expiry goroutine: "off", "armed", "fired"
    cancels,      \* history: CancelJob calls
    ranStages,    \* history: RunStages has been invoked
    now,          \* wall clock, in quarters of an hour since the process started
    timerAt,      \* instant at which cancelTimer is due, -1 before it is created
    args,         \* kingpin flags --builder-config-path and --builder-config
    ciServer,     \* envvarHelper.ciServer: ZIPLINEE_CI_SERVER as read at start-up
    entry,        \* entry point the process is in: "main", "job", "gocd", "local"
    calls,        \* history: calls made by the main goroutine since Init, in order
    configSource, \* loadBuilderConfig: where the config was read from, "" before
    envvars,      \* the env map handed to RunStages, empty before it is built
    host,         \* history: the environment the process inherited from the host
    fn            \* a helper function called on its own: name, arguments, result

vars == <<cfg, runAsJob, env, pc, mode, heap, buildLog, arg, buildStatus,
          sent, logResult, exitCode, timer, cancels, ranStages, now, timerAt,
          args, ciServer, entry, calls, configSource, envvars, host, fn>>

(***************************************************************************)
(* Bounds                                                                  *)
(***************************************************************************)
\* top-level steps RunStages returns in the hosted-job specification
MaxSteps == 2
\* log lines per step
MaxLines == 2
\* top-level steps of the build logs SpecLog hands to SendBuildJobLogEvent
MaxLogSteps == 2
\* last instant of the wall clock, in quarters of an hour
MaxTime == 3
\* builderConfig.CIServer.JWTExpiry, in quarters of an hour after the process start
JWTExpiry == 2
\* maps handed to OverrideEnvvars
MaxMaps == 2
\* characters of a short value handed to makeDNSLabelSafe
MaxValueLen == 5
\* events handed to setZiplineeEventEnvvars
MaxEvents == 2
\* pieces (plain text or secret envelope) of a value handed to decryptSecrets
MaxPieces == 2

(***************************************************************************)
(* contracts: statuses and event types                                     *)
(***************************************************************************)
LogStatusSucceeded == "SUCCEEDED"
LogStatusFailed == "FAILED"
LogStatusUnknown == "UNKNOWN"
LogStatusRunning == "RUNNING"
LogStatuses == {LogStatusSucceeded, LogStatusFailed, LogStatusUnknown}

BuildEventTypeUpdateStatus == "builder:running"
BuildEventTypeClean == "builder:clean"

NilErr == "<nil>"
SecretText == "hunter2"
\* err.Error() of the errors the collaborators return
ErrTexts == {"exit status 1", "cannot use credential hunter2"}

TruncatedText == "Truncated logs for reducing total log size; to prevent this use less verbose logging"

Range(s) == {s[i] : i \in DOMAIN s}

\* no helper function is being called on its own
FnIdle == [name |-> "none"]

Getenv(e, k) == IF k \in DOMAIN e THEN e[k] ELSE ""

Setenv(e, k, v) == [x \in DOMAIN e \cup {k} |-> IF x = k THEN v ELSE e[x]]

(***************************************************************************)
(* Obfuscator.Obfuscate: replaces every registered secret by ***           *)
(***************************************************************************)
Obfuscate(text) ==
    CASE text = "echo hunter2" -> "echo ***"
      [] text = "cannot use credential hunter2" -> "cannot use credential ***"
      [] text = SecretText -> "***"
      [] OTHER -> text

\* output of a stage container before obfuscation, line by line
RawOutput(i) == IF i % 2 = 1 THEN "echo hunter2" ELSE "+ make"

\* the lines the log tailer records for a step: obfuscated, numbered from 1
TailedLines(n) ==
    [i \in 1..n |-> [LineNumber |-> i, Timestamp |-> 100 + i,
                     StreamType |-> "stdout", Text |-> Obfuscate(RawOutput(i))]]

StageNames == <<"build", "test", "deploy", "notify">>

\* a step as PipelineRunner.RunStages returns it
StageStep(name, status, n, nested) ==
    [Step |-> name, Status |-> status, LogLines |-> TailedLines(n),
     ExitCode |-> IF status = LogStatusSucceeded THEN 0 ELSE 1,
     NestedSteps |-> nested]

\* a nested step is absent, or present with no output or with MaxLines lines
NestedChoices ==
    {<<>>} \cup {<<StageStep("nested", st, n, <<>>)>> :
                    st \in {LogStatusSucceeded, LogStatusFailed}, n \in {0, MaxLines}}

\* flat steps, as drawn by the hosted-job specification: no output or MaxLines lines
FlatSteps(i) == {StageStep(StageNames[i], st, n, <<>>) : st \in LogStatuses, n \in {0, MaxLines}}

\* steps with at most one nested step (parallel stage or service)
DeepSteps(i) ==
    {StageStep(StageNames[i], st, n, ns) :
        st \in {LogStatusSucceeded, LogStatusFailed}, n \in {0, MaxLines}, ns \in NestedChoices}

RECURSIVE StepLists(_, _)
\* all sequences s of length k with s[i] \in Choice(i); Choice(i) is FlatSteps or DeepSteps
StepLists(k, deep) ==
    IF k = 0 THEN {<<>>}
    ELSE {Append(s, x) : s \in StepLists(k - 1, deep),
                         x \in IF deep THEN DeepSteps(k) ELSE FlatSteps(k)}

JobLogs == UNION {StepLists(k, FALSE) : k \in 0..MaxSteps}
DeepLogs == UNION {StepLists(k, TRUE) : k \in 1..MaxLogSteps}

(***************************************************************************)
(* contracts.GetAggregatedStatus / BuildLog.HasUnknownStatus / HandleExit  *)
(***************************************************************************)
GetAggregatedStatus(steps) ==
    IF \E i \in DOMAIN steps : steps[i].Status = LogStatusFailed THEN LogStatusFailed
    ELSE IF \E i \in DOMAIN steps : steps[i].Status = LogStatusUnknown THEN LogStatusUnknown
    ELSE LogStatusSucceeded

HasUnknownStatus(steps) == \E i \in DOMAIN steps : steps[i].Status = LogStatusUnknown

\* HandleExit: exit code of a run that is not a job
HandleExit(steps) == IF GetAggregatedStatus(steps) = LogStatusSucceeded THEN 0 ELSE 1

\* the steps a sequence of addresses points to
Deref(hp, log) == [i \in DOMAIN log |-> hp[log[i]]]

(***************************************************************************)
(* Builder configs                                                         *)
(***************************************************************************)
\* string properties of credentials, as secret envelopes
GoodEnvelope == "ziplinee.secret(salt.payload)"
BrokenEnvelope == "ziplinee.secret(salt.broken)"

\* crypt.SecretHelper.DecryptAllEnvelopes returns an error
DecryptFails(s) == s = BrokenEnvelope

FullConfig ==
    [eventsURL |-> "https://ci/api/commands", logsURL |-> "https://ci/api/logs",
     cancelURL |-> "https://ci/api/cancel", jwt |-> "jwt", jobName |-> "build-job",
     repoSource |-> "github.com", repoOwner |-> "ziplineeci", repoName |-> "builder",
     jwtExpiry |-> JWTExpiry, credentials |-> <<GoodEnvelope>>,
     manifest |-> [labels |-> [k \in {"team"} |-> "ci"],
                   globalEnvVars |-> [k \in {"NPM_CONFIG_LOGLEVEL"} |-> "warn"]]]

Configs ==
    {FullConfig,
     [FullConfig EXCEPT !.jwt = ""],
     [FullConfig EXCEPT !.repoSource = "", !.credentials = <<>>]}

Alive == pc \notin {"exited"}

\* the quarter of an hour the goroutine means to subtract from the expiry
FifteenMinutes == 1

\* expiryTime := JWTExpiry; expiryTime.Add(-15 * time.Minute) returns a new Time
\* that is dropped, so expiryTime is unchanged; expiryDuration := expiryTime.Sub(now)
ExpiryDuration(expiry, t) ==
    LET expiryTime == expiry
        added == expiryTime - FifteenMinutes
    IN expiryTime - t

(***************************************************************************)
(* Process environment (envvarHelper)                                      *)
(***************************************************************************)
\* the variables of the ZIPLINEE_ namespace the modelled code reads or writes
PrefixScoped ==
    {"ZIPLINEE_GIT_SOURCE", "ZIPLINEE_GIT_OWNER", "ZIPLINEE_GIT_NAME",
     "ZIPLINEE_BUILD_DATETIME", "ZIPLINEE_BUILD_STATUS", "ZIPLINEE_LABEL_TEAM",
     "ZIPLINEE_LABEL_LANGUAGE", "ZIPLINEE_CI_SERVER", "ZIPLINEE_WORKDIR",
     "ZIPLINEE_EXTENSION_TOKEN"}

\* envvarHelper.SetPipelineName, called by loadBuilderConfig before the run
SetPipelineName(e, c) ==
    Setenv(Setenv(Setenv(e, "ZIPLINEE_GIT_SOURCE", c.repoSource),
                  "ZIPLINEE_GIT_OWNER", c.repoOwner),
           "ZIPLINEE_GIT_NAME", c.repoName)

\* mutant: nothing is unset
UnsetZiplineeEnvvarsNothing(e) == e

\* envvarHelper.UnsetZiplineeEnvvars: unsets every variable whose name has the prefix
UnsetZiplineeEnvvars(e) == [k \in DOMAIN e \ PrefixScoped |-> e[k]]

\* envvarHelper.SetZiplineeBuilderConfigEnvvars (the git coordinates)
SetZiplineeBuilderConfigEnvvars(e, c) ==
    Setenv(Setenv(Setenv(e, "ZIPLINEE_GIT_SOURCE", c.repoSource),
                  "ZIPLINEE_GIT_OWNER", c.repoOwner),
           "ZIPLINEE_GIT_NAME", c.repoName)

\* envvarHelper.SetZiplineeGlobalEnvvars for a ci server other than gocd
SetZiplineeGlobalEnvvars(e) ==
    LET d == IF Getenv(e, "ZIPLINEE_BUILD_DATETIME") = ""
             THEN Setenv(e, "ZIPLINEE_BUILD_DATETIME", "now") ELSE e
    IN Setenv(d, "ZIPLINEE_BUILD_STATUS", "succeeded")

\* the name of the variable initLabels sets for a label key:
\* "ZIPLINEE_LABEL_" + foundation.ToUpperSnakeCase(key)
LabelEnvvarName(key) ==
    CASE key = "team" -> "ZIPLINEE_LABEL_TEAM"
      [] key = "language" -> "ZIPLINEE_LABEL_LANGUAGE"

RECURSIVE SetAll(_, _, _)
\* e after os.Setenv(name(k), m[k]) for every key k of the map m
SetAll(e, m, keys) ==
    IF keys = {} THEN e
    ELSE LET k == CHOOSE x \in keys : TRUE
         IN SetAll(Setenv(e, LabelEnvvarName(k), m[k]), m, keys \ {k})

\* envvarHelper.initLabels: every label of the manifest becomes a variable
initLabels(e, m) == SetAll(e, m.labels, DOMAIN m.labels)

\* envvarHelper.collectZiplineeEnvvars: the variables whose name has the prefix
collectZiplineeEnvvars(e) == [k \in DOMAIN e \cap PrefixScoped |-> e[k]]

\* envvarHelper.CollectGlobalEnvvars: the manifest's global env, or an empty map
CollectGlobalEnvvars(m) == m.globalEnvVars

\* mutant: a key keeps the value of the first map that has it
OverrideEnvvarsLeftWins(envvarMaps) ==
    [k \in UNION {DOMAIN envvarMaps[i] : i \in DOMAIN envvarMaps} |->
        envvarMaps[CHOOSE i \in DOMAIN envvarMaps :
                      /\ k \in DOMAIN envvarMaps[i]
                      /\ \A j \in DOMAIN envvarMaps : k \in DOMAIN envvarMaps[j] => i <= j][k]]

RECURSIVE OverrideEnvvars(_)
\* envvarHelper.OverrideEnvvars: a fresh map into which the maps are copied in order,
\* so a later map overwrites the keys of an earlier one
OverrideEnvvars(envvarMaps) ==
    IF envvarMaps = <<>> THEN <<>>
    ELSE LET n == Len(envvarMaps)
             sofar == OverrideEnvvars(SubSeq(envvarMaps, 1, n - 1))
             envvarMap == envvarMaps[n]
         IN [k \in DOMAIN sofar \cup DOMAIN envvarMap |->
                IF k \in DOMAIN envvarMap THEN envvarMap[k] ELSE sofar[k]]

\* the env map an entry point hands to RunStages: the prefix-scoped variables after
\* initLabels, overridden by the manifest's global env
StageEnvvars(e, m) ==
    OverrideEnvvars(<<collectZiplineeEnvvars(initLabels(e, m)), CollectGlobalEnvvars(m)>>)

\* envvarHelper.GetPipelineName calls log.Fatal when a git variable is empty
GetPipelineNameFails(e) ==
    \/ Getenv(e, "ZIPLINEE_GIT_SOURCE") = ""
    \/ Getenv(e, "ZIPLINEE_GIT_OWNER") = ""
    \/ Getenv(e, "ZIPLINEE_GIT_NAME") = ""

(***************************************************************************)
(* endOfLifeHelper: requests                                               *)
(***************************************************************************)
\* mutant: the event POST lacks the job-name header
EventHeadersNoJobName == {"Authorization"}

\* headers sendBuilderEvent adds to the event POST
EventHeaders == {"X-Ziplinee-Event-Job-Name", "Authorization"}

\* headers SendBuildJobLogEventCore adds to the log POST
LogHeaders == {"Authorization", "Content-Type"}

\* headers CancelJob adds to the DELETE
CancelHeaders == {"Authorization"}

\* sendBuilderEvent: the call record; a request is issued only when the events
\* URL, the JWT and the job name are all non-empty, otherwise nil is returned
sendBuilderEvent(op, status, buildEventType, ok) ==
    LET issued == cfg.eventsURL # "" /\ cfg.jwt # "" /\ cfg.jobName # ""
    IN [op |-> op, method |-> "POST", type |-> buildEventType, status |-> status,
        issued |-> issued, ok |-> (~issued \/ ok),
        headers |-> IF issued THEN EventHeaders ELSE {},
        payload |-> <<>>]

\* SendBuildJobLogEventCore: marshals the steps the log points to and posts them
SendBuildJobLogEventCore(hp, log, ok) ==
    LET issued == cfg.logsURL # "" /\ cfg.jwt # "" /\ cfg.jobName # ""
    IN [op |-> "Logs", method |-> "POST", type |-> "", status |-> "",
        issued |-> issued, ok |-> (~issued \/ ok),
        headers |-> IF issued THEN LogHeaders ELSE {},
        payload |-> IF issued THEN Deref(hp, log) ELSE <<>>]

\* CancelJob: the call record of the DELETE
CancelRequest(ok, afterCleaned, at) ==
    LET issued == cfg.cancelURL # "" /\ cfg.jwt # "" /\ cfg.jobName # ""
    IN [op |-> "Cancel", method |-> "DELETE", issued |-> issued, ok |-> (~issued \/ ok),
        headers |-> IF issued THEN CancelHeaders ELSE {},
        afterCleaned |-> afterCleaned, at |-> at]

(***************************************************************************)
(* endOfLifeHelper.SendBuildJobLogEvent: slim-log fallback                 *)
(***************************************************************************)
\* mutant: the lines of every step are cut, whatever its status
SlimStepAnyStatus(s) ==
    IF Len(s.LogLines) > 0
    THEN [s EXCEPT !.LogLines =
             <<[LineNumber |-> s.LogLines[1].LineNumber,
                Timestamp |-> s.LogLines[1].Timestamp,
                StreamType |-> "stdout",
                Text |-> TruncatedText]>>]
    ELSE s

\* the step a pointer of buildLog.Steps points to after the loop body ran on it
SlimStep(s) ==
    IF s.Status = LogStatusSucceeded /\ Len(s.LogLines) > 0
    THEN [s EXCEPT !.LogLines =
             <<[LineNumber |-> s.LogLines[1].LineNumber,
                Timestamp |-> s.LogLines[1].Timestamp,
                StreamType |-> "stdout",
                Text |-> TruncatedText]>>]
    ELSE s

\* slimBuildLogStep := s copies the pointer, so the loop writes through it
SlimHeap(hp, log) == [a \in DOMAIN hp |-> IF a \in Range(log) THEN SlimStep(hp[a]) ELSE hp[a]]

\* mutant: no second send after a failed first one
LogsAfterFirstNoRetry(ok) == "return"

\* after the first send: return on success, else build the slim log and resend
LogsAfterFirst(ok) == IF ok THEN "return" ELSE "slim"

(***************************************************************************)
(* endOfLifeHelper.HandleFatal                                             *)
(***************************************************************************)
\* mutant: lineNumber is not incremented after the line of the error
FatalStepNoIncrement(err, message) ==
    LET errLines == IF err # NilErr
                    THEN <<[LineNumber |-> 1, Timestamp |-> 0,
                            StreamType |-> "stderr", Text |-> err]>>
                    ELSE <<>>
        lines == IF message # ""
                 THEN Append(errLines, [LineNumber |-> 1, Timestamp |-> 0,
                                        StreamType |-> "stderr", Text |-> message])
                 ELSE errLines
    IN [Step |-> "init", Status |-> "FAILED", LogLines |-> lines,
        ExitCode |-> -1, NestedSteps |-> <<>>]

\* the synthetic init step
FatalStep(err, message) ==
    LET errLines == IF err # NilErr
                    THEN <<[LineNumber |-> 1, Timestamp |-> 0,
                            StreamType |-> "stderr", Text |-> err]>>
                    ELSE <<>>
        lineNumber == IF err # NilErr THEN 2 ELSE 1
        lines == IF message # ""
                 THEN Append(errLines, [LineNumber |-> lineNumber, Timestamp |-> 0,
                                        StreamType |-> "stderr", Text |-> message])
                 ELSE errLines
    IN [Step |-> "init", Status |-> "FAILED", LogLines |-> lines,
        ExitCode |-> -1, NestedSteps |-> <<>>]

\* mutant: HandleFatal ships the logs before it reports Finished
HandleFatalNextLogsFirst(p) ==
    CASE p = "enter" -> "logs"
      [] p = "logs" -> "finished"
      [] p = "finished" -> "cleaned"
      [] p = "cleaned" -> "exit"

\* order of the reporter calls in HandleFatal, then the exit
HandleFatalNext(p) ==
    CASE p = "enter" -> "finished"
      [] p = "finished" -> "logs"
      [] p = "logs" -> "cleaned"
      [] p = "cleaned" -> "exit"

\* mutant: RunZiplineeBuildJob reports Cleaned before Finished
RunJobNextCleanFirst(p) ==
    CASE p = "enter" -> "cleaned"
      [] p = "cleaned" -> "finished"
      [] p = "finished" -> "logs"
      [] p = "logs" -> "exit"

\* order of the reporter calls at the end of RunZiplineeBuildJob, then the exit
RunJobNext(p) ==
    CASE p = "enter" -> "finished"
      [] p = "finished" -> "logs"
      [] p = "logs" -> "cleaned"
      [] p = "cleaned" -> "exit"

EndOfLifeNext(p) == IF mode = "fatal" THEN HandleFatalNext(p) ELSE RunJobNext(p)

\* HandleFatal discards the result of every reporter call (_ = ...)
FatalAfterSend(ok, next) == next

\* mutant: a failed reporter call ends the run
JobAfterSendAbort(ok, next) == IF ok THEN next ELSE "exit"

\* RunZiplineeBuildJob discards the result of every reporter call (_ = ...)
JobAfterSend(ok, next) == next

AfterSend(ok, next) == IF mode = "fatal" THEN FatalAfterSend(ok, next) ELSE JobAfterSend(ok, next)

\* statuses HandleFatal passes to SendBuildFinishedEvent and SendBuildCleanEvent
FatalFinishedStatus == LogStatusFailed

FatalCleanStatus == LogStatusFailed

\* statuses RunZiplineeBuildJob passes to SendBuildFinishedEvent and SendBuildCleanEvent
JobFinishedStatus == buildStatus

\* mutant: Cleaned always reports success
JobCleanStatusSucceeded == LogStatusSucceeded

JobCleanStatus == buildStatus

\* HandleFatal: os.Exit(0) when run as job, log.Fatal (exit 1) otherwise
HandleFatalExit == IF runAsJob THEN 0 ELSE 1

\* end of RunZiplineeBuildJob: os.Exit(0) when run as job, HandleExit otherwise
RunJobExit == IF runAsJob THEN 0 ELSE HandleExit(Deref(heap, buildLog))

\* HandleFatal up to its first reporter call: the BuildLog is passed by value, the
\* init step is allocated and its address appended to the copy
HandleFatal(hp, log, err, message) ==
    /\ heap' = Append(hp, FatalStep(err, message))
    /\ arg' = Append(log, Len(hp) + 1)
    /\ mode' = "fatal"
    /\ pc' = HandleFatalNext("enter")

(***************************************************************************)
(* Initial states: the process after main() built its collaborators and    *)
(* loadBuilderConfig returned, about to call RunZiplineeBuildJob           *)
(***************************************************************************)
HostEnv == [k \in {"PATH"} |-> "/usr/bin"]

\* prefix-scoped variables the host may hand to the process, with the host's values
HostScoped ==
    [k \in {"ZIPLINEE_BUILD_DATETIME", "ZIPLINEE_GIT_NAME", "ZIPLINEE_LABEL_LANGUAGE",
            "ZIPLINEE_EXTENSION_TOKEN"} |-> "from-host"]

\* the environments a hosted job may inherit: the pod sets ZIPLINEE_CI_SERVER and
\* ZIPLINEE_WORKDIR, and the HostScoped variables may be present as well
HostEnvs ==
    {[k \in {"PATH", "ZIPLINEE_CI_SERVER", "ZIPLINEE_WORKDIR"} \cup extra |->
         CASE k = "PATH" -> "/usr/bin"
           [] k = "ZIPLINEE_CI_SERVER" -> "ziplinee"
           [] k = "ZIPLINEE_WORKDIR" -> "/ziplinee-work"
           [] OTHER -> HostScoped[k]] : extra \in {{}, DOMAIN HostScoped}}

Init ==
    /\ cfg \in Configs
    /\ runAsJob \in BOOLEAN
    /\ host \in HostEnvs
    /\ env = SetPipelineName(host, cfg)
    /\ pc = "start"
    /\ mode = "run"
    /\ heap = <<>>
    /\ buildLog = <<>>
    /\ arg = <<>>
    /\ buildStatus = ""
    /\ sent = <<>>
    /\ logResult = "none"
    /\ exitCode = -1
    /\ timer = "off"
    /\ cancels = <<>>
    /\ ranStages = FALSE
    /\ now = 0
    /\ timerAt = -1
    /\ envvars = <<>>
    /\ fn = FnIdle
    /\ args = [builderConfigPath |-> "", builderConfigFlag |-> "{builder config json}"]
    /\ ciServer = "ziplinee"
    /\ entry = "job"
    /\ calls = <<>>
    /\ configSource = "flag"

(***************************************************************************)
(* RunZiplineeBuildJob: setup                                              *)
(***************************************************************************)
\* _ = endOfLifeHelper.SendBuildStartedEvent(ctx), then the JWT-expiry goroutine starts
SendBuildStartedEvent ==
    /\ pc = "start"
    /\ \E ok \in BOOLEAN :
        LET r == sendBuilderEvent("Started", LogStatusRunning, BuildEventTypeUpdateStatus, ok)
        IN /\ sent' = Append(sent, r)
           /\ pc' = JobAfterSend(r.ok, "unset")
    /\ timer' = "armed"
    /\ timerAt' = now + ExpiryDuration(cfg.jwtExpiry, now)
    /\ calls' = calls \o <<"SendBuildStartedEvent", "StartCancelTimer">>
    /\ UNCHANGED <<cfg, runAsJob, fn, host, envvars, configSource, args, ciServer, entry, now, env, mode, heap, buildLog, arg,
                   buildStatus, logResult, exitCode, cancels, ranStages>>

\* a setup call that returns err: HandleFatal on error, else on to the next call
SetupCall(err, message, next) ==
    IF err # NilErr
    THEN HandleFatal(heap, buildLog, err, message)
    ELSE /\ pc' = next
         /\ UNCHANGED <<heap, arg, mode>>

UnsetEnvvars ==
    /\ pc = "unset"
    /\ env' = UnsetZiplineeEnvvars(env)
    /\ pc' = "setconfig"
    /\ calls' = Append(calls, "UnsetZiplineeEnvvars")
    /\ UNCHANGED <<cfg, runAsJob, fn, host, envvars, configSource, args, ciServer, entry, now, timerAt, mode, heap, buildLog,
                   arg, buildStatus, sent, logResult, exitCode, timer, cancels, ranStages>>

SetBuilderConfigEnvvars ==
    /\ pc = "setconfig"
    /\ \E err \in {NilErr} \cup ErrTexts :
        /\ SetupCall(err, "Error setting ziplinee builder config envvars", "daemon")
        /\ env' = IF err = NilErr THEN SetZiplineeBuilderConfigEnvvars(env, cfg) ELSE env
    /\ calls' = Append(calls, "SetZiplineeBuilderConfigEnvvars")
    /\ UNCHANGED <<cfg, runAsJob, fn, host, envvars, configSource, args, ciServer, entry, now, timerAt, buildLog, buildStatus,
                   sent, logResult, exitCode, timer, cancels, ranStages>>

\* StartDockerDaemon, WaitForDockerDaemon, then go StopPipelineOnCancellation
StartDockerDaemon ==
    /\ pc = "daemon"
    /\ \E err \in {NilErr} \cup ErrTexts :
        /\ SetupCall(err, "Error starting docker daemon", "workdir")
        /\ calls' = calls \o
              (IF err = NilErr
               THEN <<"StartDockerDaemon", "WaitForDockerDaemon", "StopPipelineOnCancellation">>
               ELSE <<"StartDockerDaemon">>)
    /\ UNCHANGED <<cfg, runAsJob, fn, host, envvars, configSource, args, ciServer, entry, now, timerAt, env, buildLog,
                   buildStatus, sent, logResult, exitCode, timer, cancels, ranStages>>

\* envvarHelper.GetWorkDir returns ZIPLINEE_WORKDIR as read at start-up
GetWorkDir ==
    /\ pc = "workdir"
    /\ \E dir \in {"", "/ziplinee-work"} :
        IF dir = ""
        THEN HandleFatal(heap, buildLog, NilErr,
                 "Getting working directory from environment variable ZIPLINEE_WORKDIR failed")
        ELSE /\ pc' = "globalenv"
             /\ UNCHANGED <<heap, arg, mode>>
    /\ calls' = Append(calls, "GetWorkDir")
    /\ UNCHANGED <<cfg, runAsJob, fn, host, envvars, configSource, args, ciServer, entry, now, timerAt, env, buildLog,
                   buildStatus, sent, logResult, exitCode, timer, cancels, ranStages>>

SetGlobalEnvvars ==
    /\ pc = "globalenv"
    /\ \E err \in {NilErr} \cup ErrTexts :
        /\ SetupCall(err, "Setting global environment variables failed", "secrets")
        /\ env' = IF err = NilErr THEN SetZiplineeGlobalEnvvars(env) ELSE env
    /\ calls' = Append(calls, "SetZiplineeGlobalEnvvars")
    /\ UNCHANGED <<cfg, runAsJob, fn, host, envvars, configSource, args, ciServer, entry, now, timerAt, buildLog, buildStatus,
                   sent, logResult, exitCode, timer, cancels, ranStages>>

\* obfuscator.CollectSecrets(manifest, credentials, envvarHelper.GetPipelineName()):
\* the argument is evaluated first and exits through log.Fatal when it fails
CollectSecrets ==
    /\ pc = "secrets"
    /\ IF GetPipelineNameFails(env)
       THEN /\ pc' = "exited"
            /\ mode' = "abort"
            /\ exitCode' = 1
            /\ calls' = Append(calls, "GetPipelineName")
            /\ UNCHANGED <<heap, arg>>
       ELSE /\ \E err \in {NilErr} \cup ErrTexts :
                SetupCall(err, "Collecting secrets to obfuscate failed", "dockerclient")
            /\ calls' = calls \o <<"GetPipelineName", "CollectSecrets">>
            /\ UNCHANGED exitCode
    /\ UNCHANGED <<cfg, runAsJob, fn, host, envvars, configSource, args, ciServer, entry, now, timerAt, env, buildLog,
                   buildStatus, sent, logResult, timer, cancels, ranStages>>

CreateDockerClient ==
    /\ pc = "dockerclient"
    /\ \E err \in {NilErr} \cup ErrTexts :
        SetupCall(err, "Failed creating a docker client", "collect")
    /\ calls' = Append(calls, "CreateDockerClient")
    /\ UNCHANGED <<cfg, runAsJob, fn, host, envvars, configSource, args, ciServer, entry, now, timerAt, env, buildLog,
                   buildStatus, sent, logResult, exitCode, timer, cancels, ranStages>>

\* CollectZiplineeEnvvarsAndLabels; on success CollectGlobalEnvvars and OverrideEnvvars
CollectEnvvarsAndLabels ==
    /\ pc = "collect"
    /\ \E err \in {NilErr} \cup ErrTexts :
        /\ SetupCall(err, "CollectZiplineeEnvvarsAndLabels failed", "runstages")
        /\ env' = IF err = NilErr THEN initLabels(env, cfg.manifest) ELSE env
        /\ envvars' = IF err = NilErr THEN StageEnvvars(env, cfg.manifest) ELSE envvars
    /\ calls' = Append(calls, "CollectZiplineeEnvvarsAndLabels")
    /\ UNCHANGED <<cfg, runAsJob, fn, host, configSource, args, ciServer, entry, now, timerAt, buildLog,
                   buildStatus, sent, logResult, exitCode, timer, cancels, ranStages>>

(***************************************************************************)
(* RunZiplineeBuildJob: stages and end of life                             *)
(***************************************************************************)
\* mutant: every error of RunStages is fatal
StagesFatalAnyError(steps, err) == err # NilErr

\* if err != nil && buildLog.HasUnknownStatus()
StagesFatal(steps, err) == err # NilErr /\ HasUnknownStatus(steps)

\* buildLog.Steps, err = pipelineRunner.RunStages(...) returned steps and err:
\* HandleFatal when err is set and the log has unknown status; else buildStatus is
\* aggregated
RunStagesReturned(steps, err) ==
    /\ pc = "runstages"
    /\ ranStages' = TRUE
    /\ calls' = Append(calls, "RunStages")
    /\ LET log == [i \in 1..Len(steps) |-> i]
       IN /\ buildLog' = log
          /\ IF StagesFatal(steps, err)
             THEN /\ HandleFatal(steps, log, err, "Executing stages from manifest failed")
                  /\ UNCHANGED buildStatus
             ELSE /\ heap' = steps
                  /\ arg' = log
                  /\ buildStatus' = GetAggregatedStatus(steps)
                  /\ pc' = RunJobNext("enter")
                  /\ UNCHANGED mode
    /\ UNCHANGED <<cfg, runAsJob, fn, host, envvars, configSource, args, ciServer, entry, now, timerAt, env, sent, logResult,
                   exitCode, timer, cancels>>

RunStages ==
    /\ pc = "runstages"
    /\ \E steps \in JobLogs, err \in {NilErr} \cup ErrTexts : RunStagesReturned(steps, err)

SendBuildFinishedEvent ==
    /\ pc = "finished"
    /\ \E ok \in BOOLEAN :
        LET r == sendBuilderEvent("Finished",
                     IF mode = "fatal" THEN FatalFinishedStatus ELSE JobFinishedStatus,
                     BuildEventTypeUpdateStatus, ok)
        IN /\ sent' = Append(sent, r)
           /\ pc' = AfterSend(r.ok, EndOfLifeNext("finished"))
    /\ UNCHANGED <<cfg, runAsJob, fn, host, envvars, configSource, args, ciServer, entry, calls, now, timerAt, env, mode, heap,
                   buildLog, arg, buildStatus, logResult, exitCode, timer, cancels, ranStages>>

\* SendBuildJobLogEvent up to the return of the first SendBuildJobLogEventCore
SendBuildJobLogEvent ==
    /\ pc = "logs"
    /\ \E ok \in BOOLEAN :
        LET r == SendBuildJobLogEventCore(heap, arg, ok)
        IN /\ sent' = Append(sent, r)
           /\ IF LogsAfterFirst(r.ok) = "return"
              THEN /\ logResult' = IF r.ok THEN "nil" ELSE "err"
                   /\ pc' = AfterSend(r.ok, EndOfLifeNext("logs"))
              ELSE /\ logResult' = logResult
                   /\ pc' = "slim"
    /\ UNCHANGED <<cfg, runAsJob, fn, host, envvars, configSource, args, ciServer, entry, calls, now, timerAt, env, mode, heap,
                   buildLog, arg, buildStatus, exitCode, timer, cancels, ranStages>>

\* SendBuildJobLogEvent after a failed first send: the slim loop and the second send
SendSlimBuildJobLogEvent ==
    /\ pc = "slim"
    /\ heap' = SlimHeap(heap, arg)
    /\ \E ok \in BOOLEAN :
        LET r == SendBuildJobLogEventCore(SlimHeap(heap, arg), arg, ok)
        IN /\ sent' = Append(sent, r)
           /\ logResult' = IF r.ok THEN "nil" ELSE "err"
           /\ pc' = AfterSend(r.ok, EndOfLifeNext("logs"))
    /\ UNCHANGED <<cfg, runAsJob, fn, host, envvars, configSource, args, ciServer, entry, calls, now, timerAt, env, mode,
                   buildLog, arg, buildStatus, exitCode, timer, cancels, ranStages>>

SendBuildCleanEvent ==
    /\ pc = "cleaned"
    /\ \E ok \in BOOLEAN :
        LET r == sendBuilderEvent("Cleaned",
                     IF mode = "fatal" THEN FatalCleanStatus ELSE JobCleanStatus,
                     BuildEventTypeClean, ok)
        IN /\ sent' = Append(sent, r)
           /\ pc' = AfterSend(r.ok, EndOfLifeNext("cleaned"))
    /\ UNCHANGED <<cfg, runAsJob, fn, host, envvars, configSource, args, ciServer, entry, calls, now, timerAt, env, mode, heap,
                   buildLog, arg, buildStatus, logResult, exitCode, timer, cancels, ranStages>>

\* os.Exit / log.Fatal / HandleExit at the end of HandleFatal or RunZiplineeBuildJob
ExitProcess ==
    /\ pc = "exit"
    /\ exitCode' = IF mode = "fatal" THEN HandleFatalExit ELSE RunJobExit
    /\ pc' = "exited"
    /\ UNCHANGED <<cfg, runAsJob, fn, host, envvars, configSource, args, ciServer, entry, calls, now, timerAt, env, mode, heap,
                   buildLog, arg, buildStatus, sent, logResult, timer, cancels, ranStages>>

(***************************************************************************)
(* JWT-expiry goroutine                                                    *)
(***************************************************************************)
\* <-cancelTimer.C: the timer fires when it is due, while the process is alive,
\* and the goroutine calls CancelJob
CancelJob ==
    /\ timer = "armed"
    /\ Alive
    /\ now >= timerAt
    /\ \E ok \in BOOLEAN :
        cancels' = Append(cancels,
                      CancelRequest(ok, \E i \in DOMAIN sent : sent[i].op = "Cleaned", now))
    /\ timer' = "fired"
    /\ UNCHANGED <<cfg, runAsJob, fn, host, envvars, configSource, args, ciServer, entry, calls, now, timerAt, env, pc, mode,
                   heap, buildLog, arg, buildStatus, sent, logResult, exitCode, ranStages>>

\* a quarter of an hour passes; a due timer fires before more time passes
Tick ==
    /\ Alive
    /\ now < MaxTime
    /\ timer = "armed" => now < timerAt
    /\ now' = now + 1
    /\ UNCHANGED <<cfg, runAsJob, fn, host, envvars, configSource, args, ciServer, entry, calls, env, pc, mode, heap, buildLog,
                   arg, buildStatus, sent, logResult, exitCode, timer, cancels, ranStages,
                   timerAt>>

Next ==
    \/ SendBuildStartedEvent
    \/ UnsetEnvvars
    \/ SetBuilderConfigEnvvars
    \/ StartDockerDaemon
    \/ GetWorkDir
    \/ SetGlobalEnvvars
    \/ CollectSecrets
    \/ CreateDockerClient
    \/ CollectEnvvarsAndLabels
    \/ RunStages
    \/ SendBuildFinishedEvent
    \/ SendBuildJobLogEvent
    \/ SendSlimBuildJobLogEvent
    \/ SendBuildCleanEvent
    \/ ExitProcess
    \/ CancelJob
    \/ Tick

Spec == Init /\ [][Next]_vars

(***************************************************************************)
(* SendBuildJobLogEvent on its own: called with an arbitrary build log     *)
(* whose steps may carry nested steps                                      *)
(***************************************************************************)
InitLog ==
    /\ cfg \in {FullConfig, [FullConfig EXCEPT !.jwt = ""]}
    /\ runAsJob = TRUE
    /\ host = HostEnv
    /\ env = SetPipelineName(HostEnv, cfg)
    /\ pc = "logs"
    /\ mode = "run"
    /\ \E steps \in DeepLogs :
        /\ heap = steps
        /\ buildLog = [i \in 1..Len(steps) |-> i]
        /\ arg = [i \in 1..Len(steps) |-> i]
        /\ buildStatus = GetAggregatedStatus(steps)
    /\ sent = <<>>
    /\ logResult = "none"
    /\ exitCode = -1
    /\ timer = "off"
    /\ cancels = <<>>
    /\ ranStages = TRUE
    /\ now = 0
    /\ timerAt = -1
    /\ envvars = <<>>
    /\ fn = FnIdle
    /\ args = [builderConfigPath |-> "", builderConfigFlag |-> "{builder config json}"]
    /\ ciServer = "ziplinee"
    /\ entry = "job"
    /\ calls = <<>>
    /\ configSource = "flag"

NextLog ==
    \/ SendBuildJobLogEvent
    \/ SendSlimBuildJobLogEvent

SpecLog == InitLog /\ [][NextLog]_vars

(***************************************************************************)
(* main(): loadBuilderConfig and the detection of the controlling server   *)
(***************************************************************************)
ConfigPaths == {"", "/configs/builder-config.json"}
ConfigFlags == {"", "{builder config json}"}
CiServers == {"gocd", "ziplinee", "jenkins"}

\* builder configs main() may load: git coordinates and credentials vary
MainConfigs ==
    {[FullConfig EXCEPT !.repoSource = src, !.credentials = cr] :
        src \in {"github.com", ""},
        cr \in {<<>>, <<GoodEnvelope>>, <<BrokenEnvelope>>, <<GoodEnvelope, BrokenEnvelope>>}}

\* the variables the run does not touch before an entry point starts
runVars == <<heap, buildLog, arg, buildStatus, sent, logResult, timer, cancels, ranStages,
             now, timerAt>>

\* log.Fatal: the process exits with code 1 at once
LogFatal ==
    /\ pc' = "exited"
    /\ mode' = "abort"
    /\ exitCode' = 1

InitMain ==
    /\ cfg \in MainConfigs
    /\ runAsJob \in BOOLEAN
    /\ args \in [builderConfigPath : ConfigPaths, builderConfigFlag : ConfigFlags]
    /\ ciServer \in CiServers
    /\ entry \in {"main", "local"}
    /\ host = IF args.builderConfigFlag # ""
              THEN Setenv(HostEnv, "BUILDER_CONFIG", args.builderConfigFlag)
              ELSE HostEnv
    /\ env = host
    /\ pc = IF entry = "main" THEN "load" ELSE "local:dockerclient"
    /\ mode = "run"
    /\ configSource = ""
    /\ calls = <<>>
    /\ heap = <<>>
    /\ buildLog = <<>>
    /\ arg = <<>>
    /\ buildStatus = ""
    /\ sent = <<>>
    /\ logResult = "none"
    /\ exitCode = -1
    /\ timer = "off"
    /\ cancels = <<>>
    /\ ranStages = FALSE
    /\ now = 0
    /\ timerAt = -1
    /\ envvars = <<>>
    /\ fn = FnIdle

\* mutant: the flag is looked at before the path
ConfigSourceFlagFirst(a) ==
    IF a.builderConfigFlag # "" THEN "flag"
    ELSE IF a.builderConfigPath # "" THEN "file"
    ELSE ""

\* loadBuilderConfig, choice of the source: the path is looked at first, the flag only
\* when the path is empty; "" when both are empty
ConfigSourceOf(a) ==
    IF a.builderConfigPath # "" THEN "file"
    ELSE IF a.builderConfigFlag # "" THEN "flag"
    ELSE ""

\* loadBuilderConfig up to the config JSON: os.ReadFile of the path, or the flag and
\* os.Unsetenv("BUILDER_CONFIG"); log.Fatal without a source or when the read fails
LoadBuilderConfigSource ==
    /\ pc = "load"
    /\ CASE ConfigSourceOf(args) = "file" ->
              /\ calls' = Append(calls, "ReadFile")
              /\ \E readErr \in BOOLEAN :
                    IF readErr
                    THEN LogFatal /\ UNCHANGED configSource
                    ELSE /\ configSource' = "file"
                         /\ pc' = "unmarshal"
                         /\ UNCHANGED <<mode, exitCode>>
              /\ UNCHANGED env
         [] ConfigSourceOf(args) = "flag" ->
              /\ configSource' = "flag"
              /\ env' = [k \in DOMAIN env \ {"BUILDER_CONFIG"} |-> env[k]]
              /\ calls' = Append(calls, "Unsetenv")
              /\ pc' = "unmarshal"
              /\ UNCHANGED <<mode, exitCode>>
         [] OTHER ->
              /\ LogFatal
              /\ UNCHANGED <<configSource, env, calls>>
    /\ UNCHANGED <<cfg, runAsJob, fn, host, envvars, args, ciServer, entry>>
    /\ UNCHANGED runVars

\* loadBuilderConfig: json.Unmarshal, json.Marshal of the credentials, SetPipelineName
LoadBuilderConfigParse ==
    /\ pc = "unmarshal"
    /\ \E err \in BOOLEAN :
        IF err
        THEN /\ LogFatal
             /\ calls' = Append(calls, "Unmarshal")
             /\ UNCHANGED env
        ELSE /\ env' = SetPipelineName(env, cfg)
             /\ calls' = calls \o <<"Unmarshal", "Marshal", "SetPipelineName">>
             /\ pc' = "decrypt"
             /\ UNCHANGED <<mode, exitCode>>
    /\ UNCHANGED <<cfg, runAsJob, fn, host, envvars, args, ciServer, entry, configSource>>
    /\ UNCHANGED runVars

\* the calls of the decryption loop that stops after n credentials
DecryptCalls(n) ==
    [i \in 1..(2 * n) |-> IF i % 2 = 1 THEN "GetPipelineName" ELSE "DecryptAllEnvelopes"]

\* loadBuilderConfig: the loop that decrypts every string property of every credential;
\* GetPipelineName and a failed decryption both end in log.Fatal
LoadBuilderConfigDecrypt ==
    /\ pc = "decrypt"
    /\ LET creds == cfg.credentials
           broken == {i \in DOMAIN creds : DecryptFails(creds[i])}
           first == CHOOSE i \in broken : \A j \in broken : i <= j
       IN IF creds # <<>> /\ GetPipelineNameFails(env)
          THEN /\ LogFatal
               /\ calls' = Append(calls, "GetPipelineName")
          ELSE IF broken # {}
          THEN /\ LogFatal
               /\ calls' = calls \o DecryptCalls(first)
          ELSE /\ pc' = "detect"
               /\ calls' = calls \o DecryptCalls(Len(creds))
               /\ UNCHANGED <<mode, exitCode>>
    /\ UNCHANGED <<cfg, runAsJob, fn, host, envvars, args, ciServer, entry, configSource, env>>
    /\ UNCHANGED runVars

\* main: ciServer := envvarHelper.GetCiServer() selects the entry point; an
\* unrecognised server is logged and main returns
DetectServer ==
    /\ pc = "detect"
    /\ CASE ciServer = "gocd" ->
              /\ entry' = "gocd"
              /\ pc' = "gocd:dockerclient"
              /\ UNCHANGED exitCode
         [] ciServer = "ziplinee" ->
              /\ entry' = "job"
              /\ pc' = "start"
              /\ UNCHANGED exitCode
         [] OTHER ->
              /\ entry' = "none"
              /\ pc' = "exited"
              /\ exitCode' = 0
    /\ UNCHANGED <<cfg, runAsJob, fn, host, envvars, args, ciServer, calls, configSource, env, mode>>
    /\ UNCHANGED runVars

(***************************************************************************)
(* RunGocdAgentBuild                                                       *)
(***************************************************************************)
\* LocalFatalHandler.HandleFatal: logs the error and exits with code 1
LocalHandleFatal == LogFatal

\* a call of the agent run that returns err: fatal on error, else on to the next call
AgentCall(names, err, next) ==
    /\ calls' = calls \o names
    /\ IF err # NilErr
       THEN LocalHandleFatal
       ELSE /\ pc' = next
            /\ UNCHANGED <<mode, exitCode>>

GocdCreateDockerClient ==
    /\ pc = "gocd:dockerclient"
    /\ \E err \in {NilErr} \cup ErrTexts :
        AgentCall(<<"CreateDockerClient">>, err, "gocd:manifest")
    /\ UNCHANGED <<cfg, runAsJob, fn, host, envvars, args, ciServer, entry, configSource, env>>
    /\ UNCHANGED runVars

GocdReadManifest ==
    /\ pc = "gocd:manifest"
    /\ \E err \in {NilErr} \cup ErrTexts :
        AgentCall(<<"ReadManifestFromFile">>, err, "gocd:secrets")
    /\ UNCHANGED <<cfg, runAsJob, fn, host, envvars, args, ciServer, entry, configSource, env>>
    /\ UNCHANGED runVars

\* obfuscator.CollectSecrets(manifest, credentialsBytes, envvarHelper.GetPipelineName())
GocdCollectSecrets ==
    /\ pc = "gocd:secrets"
    /\ IF GetPipelineNameFails(env)
       THEN /\ LogFatal
            /\ calls' = Append(calls, "GetPipelineName")
       ELSE \E err \in {NilErr} \cup ErrTexts :
               AgentCall(<<"GetPipelineName", "CollectSecrets">>, err, "gocd:getwd")
    /\ UNCHANGED <<cfg, runAsJob, fn, host, envvars, args, ciServer, entry, configSource, env>>
    /\ UNCHANGED runVars

GocdGetwd ==
    /\ pc = "gocd:getwd"
    /\ \E err \in {NilErr} \cup ErrTexts :
        AgentCall(<<"Getwd">>, err, "gocd:release")
    /\ UNCHANGED <<cfg, runAsJob, fn, host, envvars, args, ciServer, entry, configSource, env>>
    /\ UNCHANGED runVars

\* the stages of the release named by ZIPLINEE_RELEASE_NAME, or the build stages;
\* a release the manifest does not define is fatal
GocdSelectStages ==
    /\ pc = "gocd:release"
    /\ \E releaseName \in {"", "production"}, releaseExists \in BOOLEAN :
        IF releaseName # "" /\ ~releaseExists
        THEN LocalHandleFatal
        ELSE /\ pc' = "gocd:globalenv"
             /\ UNCHANGED <<mode, exitCode>>
    /\ UNCHANGED <<cfg, runAsJob, fn, host, envvars, args, ciServer, entry, configSource, env, calls>>
    /\ UNCHANGED runVars

GocdSetGlobalEnvvars ==
    /\ pc = "gocd:globalenv"
    /\ \E err \in {NilErr} \cup ErrTexts :
        /\ AgentCall(<<"SetZiplineeGlobalEnvvars">>, err, "gocd:collect")
        /\ env' = IF err = NilErr THEN SetZiplineeGlobalEnvvars(env) ELSE env
    /\ UNCHANGED <<cfg, runAsJob, fn, host, envvars, args, ciServer, entry, configSource>>
    /\ UNCHANGED runVars

GocdCollectEnvvarsAndLabels ==
    /\ pc = "gocd:collect"
    /\ \E err \in {NilErr} \cup ErrTexts :
        /\ AgentCall(<<"CollectZiplineeEnvvarsAndLabels">>, err, "gocd:runstages")
        /\ env' = IF err = NilErr THEN initLabels(env, cfg.manifest) ELSE env
        /\ envvars' = IF err = NilErr THEN StageEnvvars(env, cfg.manifest) ELSE envvars
    /\ UNCHANGED <<cfg, runAsJob, fn, host, args, ciServer, entry, configSource>>
    /\ UNCHANGED runVars

\* RunStages, then RenderStats and HandleExit; an error of RunStages is fatal
GocdRunStages ==
    /\ pc = "gocd:runstages"
    /\ ranStages' = TRUE
    /\ calls' = Append(calls, "RunStages")
    /\ \E steps \in JobLogs, err \in {NilErr} \cup ErrTexts :
        /\ heap' = steps
        /\ buildLog' = [i \in 1..Len(steps) |-> i]
        /\ IF err # NilErr
           THEN LocalHandleFatal
           ELSE /\ pc' = "exited"
                /\ exitCode' = HandleExit(steps)
                /\ UNCHANGED mode
    /\ UNCHANGED <<cfg, runAsJob, fn, host, envvars, args, ciServer, entry, configSource, env, arg, buildStatus,
                   sent, logResult, timer, cancels, now, timerAt>>

(***************************************************************************)
(* RunLocalBuild: returns its error to the caller                          *)
(***************************************************************************)
\* a call of the local build that returns err: return it, else on to the next call
LocalCall(names, err, next) ==
    /\ calls' = calls \o names
    /\ IF err # NilErr
       THEN /\ pc' = "returned"
            /\ mode' = "error"
       ELSE /\ pc' = next
            /\ UNCHANGED mode

LocalCreateDockerClient ==
    /\ pc = "local:dockerclient"
    /\ \E err \in {NilErr} \cup ErrTexts :
        LocalCall(<<"CreateDockerClient">>, err, "local:manifest")
    /\ UNCHANGED <<cfg, runAsJob, fn, host, envvars, args, ciServer, entry, configSource, env, exitCode>>
    /\ UNCHANGED runVars

\* the manifest is read and the stages named by stagesToRun are selected; no stage
\* selected is an error
LocalReadManifest ==
    /\ pc = "local:manifest"
    /\ \E err \in {NilErr} \cup ErrTexts, selected \in 0..1 :
        LocalCall(<<"ReadManifestFromFile">>,
                  IF err = NilErr /\ selected = 0
                  THEN "Choose one of the following stages" ELSE err,
                  "local:getwd")
    /\ UNCHANGED <<cfg, runAsJob, fn, host, envvars, args, ciServer, entry, configSource, env, exitCode>>
    /\ UNCHANGED runVars

LocalGetwd ==
    /\ pc = "local:getwd"
    /\ \E err \in {NilErr} \cup ErrTexts :
        LocalCall(<<"Getwd">>, err, "local:unset")
    /\ UNCHANGED <<cfg, runAsJob, fn, host, envvars, args, ciServer, entry, configSource, env, exitCode>>
    /\ UNCHANGED runVars

LocalUnsetEnvvars ==
    /\ pc = "local:unset"
    /\ env' = UnsetZiplineeEnvvars(env)
    /\ LocalCall(<<"UnsetZiplineeEnvvars">>, NilErr, "local:pipelinename")
    /\ UNCHANGED <<cfg, runAsJob, fn, host, envvars, args, ciServer, entry, configSource, exitCode>>
    /\ UNCHANGED runVars

LocalSetPipelineName ==
    /\ pc = "local:pipelinename"
    /\ \E err \in {NilErr} \cup ErrTexts :
        /\ LocalCall(<<"SetPipelineName">>, err, "local:globalenv")
        /\ env' = IF err = NilErr THEN SetPipelineName(env, cfg) ELSE env
    /\ UNCHANGED <<cfg, runAsJob, fn, host, envvars, args, ciServer, entry, configSource, exitCode>>
    /\ UNCHANGED runVars

LocalSetGlobalEnvvars ==
    /\ pc = "local:globalenv"
    /\ \E err \in {NilErr} \cup ErrTexts :
        /\ LocalCall(<<"SetZiplineeGlobalEnvvars">>, err, "local:collect")
        /\ env' = IF err = NilErr THEN SetZiplineeGlobalEnvvars(env) ELSE env
    /\ UNCHANGED <<cfg, runAsJob, fn, host, envvars, args, ciServer, entry, configSource, exitCode>>
    /\ UNCHANGED runVars

LocalCollectEnvvarsAndLabels ==
    /\ pc = "local:collect"
    /\ \E err \in {NilErr} \cup ErrTexts :
        /\ LocalCall(<<"CollectZiplineeEnvvarsAndLabels">>, err, "local:runstages")
        /\ env' = IF err = NilErr THEN initLabels(env, cfg.manifest) ELSE env
        /\ envvars' = IF err = NilErr THEN StageEnvvars(env, cfg.manifest) ELSE envvars
    /\ UNCHANGED <<cfg, runAsJob, fn, host, args, ciServer, entry, configSource, exitCode>>
    /\ UNCHANGED runVars

\* go StopPipelineOnCancellation, RunStages; an error of RunStages or a status other
\* than succeeded is returned
LocalRunStages ==
    /\ pc = "local:runstages"
    /\ ranStages' = TRUE
    /\ calls' = calls \o <<"StopPipelineOnCancellation", "RunStages">>
    /\ \E steps \in JobLogs, err \in {NilErr} \cup ErrTexts :
        /\ heap' = steps
        /\ buildLog' = [i \in 1..Len(steps) |-> i]
        /\ mode' = IF err # NilErr \/ GetAggregatedStatus(steps) # LogStatusSucceeded
                   THEN "error" ELSE "run"
    /\ pc' = "returned"
    /\ UNCHANGED <<cfg, runAsJob, fn, host, envvars, args, ciServer, entry, configSource, env, arg, buildStatus,
                   sent, logResult, exitCode, timer, cancels, now, timerAt>>

NextMain ==
    \/ LoadBuilderConfigSource
    \/ LoadBuilderConfigParse
    \/ LoadBuilderConfigDecrypt
    \/ DetectServer
    \/ GocdCreateDockerClient
    \/ GocdReadManifest
    \/ GocdCollectSecrets
    \/ GocdGetwd
    \/ GocdSelectStages
    \/ GocdSetGlobalEnvvars
    \/ GocdCollectEnvvarsAndLabels
    \/ GocdRunStages
    \/ LocalCreateDockerClient
    \/ LocalReadManifest
    \/ LocalGetwd
    \/ LocalUnsetEnvvars
    \/ LocalSetPipelineName
    \/ LocalSetGlobalEnvvars
    \/ LocalCollectEnvvarsAndLabels
    \/ LocalRunStages

SpecMain == InitMain /\ [][NextMain]_vars

(***************************************************************************)
(* HandleFatal on its own: called with any build log, with or without an   *)
(* error and with or without a message                                     *)
(***************************************************************************)
FatalMessages == {"", "Executing stages from manifest failed"}

InitFatal ==
    /\ cfg = FullConfig
    /\ runAsJob \in BOOLEAN
    /\ host = HostEnv
    /\ env = SetPipelineName(HostEnv, cfg)
    /\ pc = "handlefatal"
    /\ mode = "run"
    /\ \E steps \in JobLogs :
        /\ heap = steps
        /\ buildLog = [i \in 1..Len(steps) |-> i]
        /\ buildStatus = GetAggregatedStatus(steps)
    /\ arg = <<>>
    /\ sent = <<>>
    /\ logResult = "none"
    /\ exitCode = -1
    /\ timer = "off"
    /\ cancels = <<>>
    /\ ranStages = TRUE
    /\ now = 0
    /\ timerAt = -1
    /\ envvars = <<>>
    /\ \E err \in {NilErr} \cup ErrTexts, message \in FatalMessages :
        fn = [name |-> "HandleFatal", err |-> err, message |-> message]
    /\ args = [builderConfigPath |-> "", builderConfigFlag |-> "{builder config json}"]
    /\ ciServer = "ziplinee"
    /\ entry = "job"
    /\ calls = <<>>
    /\ configSource = "flag"

\* elh.HandleFatal(ctx, buildLog, err, message)
CallHandleFatal ==
    /\ pc = "handlefatal"
    /\ HandleFatal(heap, buildLog, fn.err, fn.message)
    /\ UNCHANGED <<cfg, runAsJob, fn, host, envvars, configSource, args, ciServer, entry, calls, now, timerAt, env,
                   buildLog, buildStatus, sent, logResult, exitCode, timer, cancels, ranStages>>

NextFatal ==
    \/ CallHandleFatal
    \/ SendBuildFinishedEvent
    \/ SendBuildJobLogEvent
    \/ SendSlimBuildJobLogEvent
    \/ SendBuildCleanEvent
    \/ ExitProcess

SpecFatal == InitFatal /\ [][NextFatal]_vars

(***************************************************************************)
(* The end of RunZiplineeBuildJob on its own, from the call of RunStages   *)
(* on, with what RunStages returns given beforehand                        *)
(***************************************************************************)
InitStages ==
    /\ cfg = FullConfig
    /\ runAsJob \in BOOLEAN
    /\ host = HostEnv
    /\ env = SetPipelineName(HostEnv, cfg)
    /\ pc = "runstages"
    /\ mode = "run"
    /\ heap = <<>>
    /\ buildLog = <<>>
    /\ buildStatus = ""
    /\ arg = <<>>
    /\ sent = <<>>
    /\ logResult = "none"
    /\ exitCode = -1
    /\ timer = "off"
    /\ cancels = <<>>
    /\ ranStages = FALSE
    /\ now = 0
    /\ timerAt = -1
    /\ envvars = <<>>
    /\ \E steps \in JobLogs, err \in {NilErr} \cup ErrTexts :
        fn = [name |-> "RunStages", steps |-> steps, err |-> err]
    /\ args = [builderConfigPath |-> "", builderConfigFlag |-> "{builder config json}"]
    /\ ciServer = "ziplinee"
    /\ entry = "job"
    /\ calls = <<>>
    /\ configSource = "flag"

CallRunStages ==
    /\ fn.name = "RunStages"
    /\ RunStagesReturned(fn.steps, fn.err)

NextStages ==
    \/ CallRunStages
    \/ SendBuildFinishedEvent
    \/ SendBuildJobLogEvent
    \/ SendSlimBuildJobLogEvent
    \/ SendBuildCleanEvent
    \/ ExitProcess

SpecStages == InitStages /\ [][NextStages]_vars

(***************************************************************************)
(* Helper functions of envvarHelper called on their own                    *)
(***************************************************************************)
\* the rest of the process while a helper function is called on its own
HelperOnly ==
    /\ cfg = FullConfig
    /\ runAsJob = FALSE
    /\ host = HostEnv
    /\ env = HostEnv
    /\ pc = "helper"
    /\ mode = "run"
    /\ heap = <<>>
    /\ buildLog = <<>>
    /\ arg = <<>>
    /\ buildStatus = ""
    /\ sent = <<>>
    /\ logResult = "none"
    /\ exitCode = -1
    /\ timer = "off"
    /\ cancels = <<>>
    /\ ranStages = FALSE
    /\ now = 0
    /\ timerAt = -1
    /\ args = [builderConfigPath |-> "", builderConfigFlag |-> "{builder config json}"]
    /\ ciServer = "ziplinee"
    /\ entry = "helper"
    /\ calls = <<>>
    /\ configSource = "flag"
    /\ envvars = <<>>

processVars ==
    <<cfg, runAsJob, host, env, pc, mode, heap, buildLog, arg, buildStatus, sent, logResult,
      exitCode, timer, cancels, ranStages, now, timerAt, args, ciServer, entry, calls,
      configSource, envvars>>

\* map[string]string values over EnvKeys and EnvValues, a missing key included
EnvKeys == {"A", "B"}
EnvValues == {"1", "2"}
EnvMaps == UNION {[keys -> EnvValues] : keys \in SUBSET EnvKeys}

RECURSIVE SeqsUpTo(_, _)
\* the sequences over S of length at most n
SeqsUpTo(S, n) ==
    IF n = 0 THEN {<<>>}
    ELSE LET shorter == SeqsUpTo(S, n - 1)
         IN shorter \cup {Append(q, x) : q \in {r \in shorter : Len(r) = n - 1}, x \in S}

\* OverrideEnvvars(envvarMaps...): mem is the content of the argument maps, which the
\* function only reads; the result is the map it made
InitOverride ==
    /\ HelperOnly
    /\ \E maps \in SeqsUpTo(EnvMaps, MaxMaps) :
        fn = [name |-> "OverrideEnvvars", args |-> maps, mem |-> maps,
              result |-> <<>>, fresh |-> FALSE, done |-> FALSE]

CallOverrideEnvvars ==
    /\ fn.name = "OverrideEnvvars"
    /\ ~fn.done
    /\ fn' = [fn EXCEPT !.result = OverrideEnvvars(fn.args), !.fresh = TRUE, !.done = TRUE]
    /\ UNCHANGED processVars

SpecOverride == InitOverride /\ [][CallOverrideEnvvars]_vars

\* a string is a sequence of one-character strings
LowerLetters == {"a", "z"}
UpperLetters == {"Z"}
Digits == {"7"}
Hyphen == "-"
\* the characters of the values tried: a letter of each case, a digit, a hyphen and
\* a character that is none of these
ValueChars == {"a"} \cup UpperLetters \cup Digits \cup {Hyphen, "_"}

\* the longest DNS label: if len(value) > 63
LabelMax == 63

\* strings.ToLower
ToLower(value) == [i \in DOMAIN value |-> IF value[i] = "Z" THEN "z" ELSE value[i]]

IsLabelChar(c) == c \in LowerLetters \cup Digits \cup {Hyphen}

RECURSIVE ReplaceInvalid(_)
\* regexp `[^a-z0-9-]+` ReplaceAllString(value, "-"): every maximal run of other
\* characters becomes one hyphen
ReplaceInvalid(value) ==
    IF value = <<>> THEN <<>>
    ELSE IF IsLabelChar(Head(value)) THEN <<Head(value)>> \o ReplaceInvalid(Tail(value))
    ELSE IF Len(value) > 1 /\ ~IsLabelChar(value[2]) THEN ReplaceInvalid(Tail(value))
    ELSE <<Hyphen>> \o ReplaceInvalid(Tail(value))

RECURSIVE ReplaceDoubleHyphens(_)
\* strings.Replace(value, "--", "-", -1): one pass from the left over the
\* non-overlapping occurrences
ReplaceDoubleHyphens(value) ==
    IF Len(value) < 2 THEN value
    ELSE IF value[1] = Hyphen /\ value[2] = Hyphen
         THEN <<Hyphen>> \o ReplaceDoubleHyphens(SubSeq(value, 3, Len(value)))
    ELSE <<Head(value)>> \o ReplaceDoubleHyphens(Tail(value))

RECURSIVE TrimLeft(_, _)
\* strings.TrimLeft for a set of characters
TrimLeft(value, cutset) ==
    IF value # <<>> /\ Head(value) \in cutset THEN TrimLeft(Tail(value), cutset) ELSE value

RECURSIVE TrimRight(_, _)
TrimRight(value, cutset) ==
    IF value # <<>> /\ value[Len(value)] \in cutset
    THEN TrimRight(SubSeq(value, 1, Len(value) - 1), cutset)
    ELSE value

\* strings.Trim(value, "-")
Trim(value, cutset) == TrimRight(TrimLeft(value, cutset), cutset)

\* regexp `^[0-9-]+` ReplaceAllString(value, "")
StripLeadingDigitsAndHyphens(value) == TrimLeft(value, Digits \cup {Hyphen})

\* value[:63] when len(value) > 63
Truncate(value) == IF Len(value) > LabelMax THEN SubSeq(value, 1, LabelMax) ELSE value

\* mutant: the hyphens a truncation exposes are kept
makeDNSLabelSafeNoFinalTrim(value) ==
    Truncate(StripLeadingDigitsAndHyphens(Trim(ReplaceDoubleHyphens(
        ReplaceInvalid(ToLower(value))), {Hyphen})))

makeDNSLabelSafe(value) ==
    LET lowered == ToLower(value)
        valid == ReplaceInvalid(lowered)
        single == ReplaceDoubleHyphens(valid)
        trimmed == Trim(single, {Hyphen})
        letterFirst == StripLeadingDigitsAndHyphens(trimmed)
        cut == Truncate(letterFirst)
    IN Trim(cut, {Hyphen})

\* n times the letter a
Padding(n) == [i \in 1..n |-> "a"]

\* the values handed to makeDNSLabelSafe: every short one, and the short ones behind
\* a run of letters that brings them to the 63rd character
ShortValues == SeqsUpTo(ValueChars, MaxValueLen)
LongValues ==
    {Padding(n) \o tail : n \in (LabelMax - 2)..LabelMax,
                          tail \in {v \in ShortValues : Len(v) \in 1..3}}
DNSValues == ShortValues \cup LongValues

InitDNS ==
    /\ HelperOnly
    /\ \E value \in DNSValues :
        fn = [name |-> "makeDNSLabelSafe", args |-> value, result |-> <<>>,
              again |-> <<>>, step |-> 0]

\* safe := makeDNSLabelSafe(value)
CallMakeDNSLabelSafe ==
    /\ fn.name = "makeDNSLabelSafe"
    /\ fn.step = 0
    /\ fn' = [fn EXCEPT !.result = makeDNSLabelSafe(fn.args), !.step = 1]
    /\ UNCHANGED processVars

\* makeDNSLabelSafe(safe): the function applied to its own result
CallMakeDNSLabelSafeAgain ==
    /\ fn.name = "makeDNSLabelSafe"
    /\ fn.step = 1
    /\ fn' = [fn EXCEPT !.again = makeDNSLabelSafe(fn.result), !.step = 2]
    /\ UNCHANGED processVars

NextDNS == CallMakeDNSLabelSafe \/ CallMakeDNSLabelSafeAgain

SpecDNS == InitDNS /\ [][NextDNS]_vars

\* the letters, for unicode.IsUpper, unicode.IsLower and unicode.ToUpper
LowerAlphabet ==
    <<"a", "b", "c", "d", "e", "f", "g", "h", "i", "j", "k", "l", "m">> \o
    <<"n", "o", "p", "q", "r", "s", "t", "u", "v", "w", "x", "y", "z">>
UpperAlphabet ==
    <<"A", "B", "C", "D", "E", "F", "G", "H", "I", "J", "K", "L", "M">> \o
    <<"N", "O", "P", "Q", "R", "S", "T", "U", "V", "W", "X", "Y", "Z">>
IsUpper(c) == \E i \in DOMAIN UpperAlphabet : UpperAlphabet[i] = c
IsLower(c) == \E i \in DOMAIN LowerAlphabet : LowerAlphabet[i] = c
ToUpper(c) ==
    IF IsLower(c) THEN UpperAlphabet[CHOOSE i \in DOMAIN LowerAlphabet : LowerAlphabet[i] = c]
    ELSE c

RECURSIVE SnakeFrom(_, _)
\* foundation.ToUpperSnakeCase from position i on: an underscore goes before an upper
\* case letter that follows a lower case letter or starts a new word (UserID -> USER_ID,
\* BuildVersion -> BUILD_VERSION), and every letter is made upper case
SnakeFrom(in, i) ==
    IF i > Len(in) THEN <<>>
    ELSE LET wordStart ==
                 /\ i > 1
                 /\ IsUpper(in[i])
                 /\ \/ i + 1 <= Len(in) /\ IsLower(in[i + 1])
                    \/ IsLower(in[i - 1])
         IN (IF wordStart THEN <<"_">> ELSE <<>>) \o <<ToUpper(in[i])>> \o SnakeFrom(in, i + 1)

ToUpperSnakeCase(in) == SnakeFrom(in, 1)

\* "ZIPLINEE_TRIGGER_" + ToUpperSnakeCase(triggerField) + "_" +
\* ToUpperSnakeCase(triggerPropertyField); getZiplineeEnvvarName keeps the default prefix
TriggerPrefix == <<"Z", "I", "P", "L", "I", "N", "E", "E", "_", "T", "R", "I", "G", "G", "E", "R", "_">>
TriggerEnvvarName(triggerField, triggerPropertyField) ==
    TriggerPrefix \o ToUpperSnakeCase(triggerField) \o <<"_">>
        \o ToUpperSnakeCase(triggerPropertyField)

\* the pointer fields of manifest.ZiplineeEvent tried here, in the order of the struct,
\* and the fields of the struct each points to (ZiplineePipelineEvent is cut to two)
TriggerFields == <<"Pipeline", "Git", "Manual">>
TriggerFieldName ==
    [Pipeline |-> <<"P", "i", "p", "e", "l", "i", "n", "e">>,
     Git |-> <<"G", "i", "t">>,
     Manual |-> <<"M", "a", "n", "u", "a", "l">>]
TriggerPropertyFields ==
    [Pipeline |-> <<[name |-> <<"B", "u", "i", "l", "d", "V", "e", "r", "s", "i", "o", "n">>, value |-> "1.0.50"],
                    [name |-> <<"B", "r", "a", "n", "c", "h">>, value |-> "main"]>>,
     Git |-> <<[name |-> <<"B", "r", "a", "n", "c", "h">>, value |-> "main"]>>,
     Manual |-> <<[name |-> <<"U", "s", "e", "r", "I", "D">>, value |-> "user@server.com"]>>]

\* Name of an event: none, the name of the tests, and a name that reads like a kind
EventNames == {<<>>, <<"u", "p", "s", "t", "r", "e", "a", "m">>, <<"p", "i", "p", "e", "l", "i", "n", "e">>}

\* a manifest.ZiplineeEvent: payload is the pointer field that is not nil, "" for none
ZiplineeEvents ==
    [Name : EventNames, Fired : BOOLEAN, payload : Range(TriggerFields) \cup {""}]

RECURSIVE PropertyWrites(_, _, _, _)
\* the inner loop over the fields of the payload, from field j on: the setZiplineeEnv
\* calls event number n makes
PropertyWrites(e, n, triggerField, j) ==
    LET fields == TriggerPropertyFields[triggerField]
    IN IF j > Len(fields) THEN <<>>
       ELSE LET envvarValue == fields[j].value
                fired ==
                    IF e.Fired
                    THEN <<[event |-> n,
                            name |-> TriggerEnvvarName(TriggerFieldName[triggerField],
                                                       fields[j].name),
                            value |-> envvarValue]>>
                    ELSE <<>>
                named ==
                    IF e.Name # <<>>
                    THEN <<[event |-> n,
                            name |-> TriggerEnvvarName(e.Name, fields[j].name),
                            value |-> envvarValue]>>
                    ELSE <<>>
            IN fired \o named \o PropertyWrites(e, n, triggerField, j + 1)

RECURSIVE FieldWrites(_, _, _)
\* the loop over the fields of the event, from field i on: Name and Fired are no
\* pointers and a nil pointer is skipped
FieldWrites(e, n, i) ==
    IF i > Len(TriggerFields) THEN <<>>
    ELSE (IF e.payload = TriggerFields[i] THEN PropertyWrites(e, n, TriggerFields[i], 1)
          ELSE <<>>) \o FieldWrites(e, n, i + 1)

RECURSIVE EventWrites(_, _)
\* the loop over the events, from event n on
EventWrites(events, n) ==
    IF n > Len(events) THEN <<>>
    ELSE FieldWrites(events[n], n, 1) \o EventWrites(events, n + 1)

\* setZiplineeEventEnvvars(events): the setZiplineeEnv calls in the order made
setZiplineeEventEnvvars(events) == EventWrites(events, 1)

RECURSIVE SetenvAll(_, _)
\* the environment after the writes: a later os.Setenv of a name replaces the value
SetenvAll(e, writes) ==
    IF writes = <<>> THEN e
    ELSE LET w == Head(writes)
         IN SetenvAll(Setenv(e, w.name, w.value), Tail(writes))

InitEvents ==
    /\ HelperOnly
    /\ \E events \in SeqsUpTo(ZiplineeEvents, MaxEvents) :
        fn = [name |-> "setZiplineeEventEnvvars", args |-> events, result |-> <<>>,
              env |-> <<>>, done |-> FALSE]

CallSetZiplineeEventEnvvars ==
    /\ fn.name = "setZiplineeEventEnvvars"
    /\ ~fn.done
    /\ LET writes == setZiplineeEventEnvvars(fn.args)
       IN fn' = [fn EXCEPT !.result = writes, !.env = SetenvAll(<<>>, writes), !.done = TRUE]
    /\ UNCHANGED processVars

SpecEvents == InitEvents /\ [][CallSetZiplineeEventEnvvars]_vars

\* the prefix main hands to NewEnvvarHelper
ZiplineePrefix == <<"Z", "I", "P", "L", "I", "N", "E", "E", "_">>

\* strings.HasPrefix
HasPrefix(str, prefix) ==
    Len(str) >= Len(prefix) /\ SubSeq(str, 1, Len(prefix)) = prefix

RECURSIVE ReplaceAll(_, _, _)
\* strings.Replace(str, old, new, -1) for a non-empty old
ReplaceAll(str, old, new) ==
    IF Len(str) < Len(old) THEN str
    ELSE IF HasPrefix(str, old)
         THEN new \o ReplaceAll(SubSeq(str, Len(old) + 1, Len(str)), old, new)
    ELSE <<Head(str)>> \o ReplaceAll(Tail(str), old, new)

\* envvarHelper.getZiplineeEnvvarName: strings.Replace(key, "ZIPLINEE_", h.prefix, -1)
getZiplineeEnvvarName(key) == ReplaceAll(key, <<"Z", "I", "P", "L", "I", "N", "E", "E", "_">>, ZiplineePrefix)

\* os.Environ: one "NAME=value" string for every variable of the environment
Environ(e) == {k \o <<"=">> \o e[k] : k \in DOMAIN e}

\* mutant: strings.Split(e, "="), which cuts at every "="; a value with "=" in it
\* then gives more than two parts
SplitAtEach(e) ==
    LET eqs == {i \in DOMAIN e : e[i] = "="}
    IN IF eqs = {} THEN <<e>>
       ELSE IF Cardinality(eqs) > 1 THEN <<e, <<>>, <<>> >>
       ELSE LET i == CHOOSE x \in eqs : TRUE
            IN <<SubSeq(e, 1, i - 1), SubSeq(e, i + 1, Len(e))>>

\* strings.SplitN(e, "=", 2): cut at the first "=" only
SplitN2(e) ==
    LET eqs == {i \in DOMAIN e : e[i] = "="}
    IN IF eqs = {} THEN <<e>>
       ELSE LET i == CHOOSE x \in eqs : \A y \in eqs : x <= y
            IN <<SubSeq(e, 1, i - 1), SubSeq(e, i + 1, Len(e))>>

\* envvarHelper.collectZiplineeEnvvars on the strings of os.Environ()
collectFromEnviron(environ) ==
    LET kvPairs == {SplitN2(x) : x \in environ}
        kept == {kvPair \in kvPairs : Len(kvPair) = 2 /\ HasPrefix(kvPair[1], ZiplineePrefix)}
    IN [envvarName \in {kvPair[1] : kvPair \in kept} |->
           (CHOOSE kvPair \in kept : kvPair[1] = envvarName)[2]]

\* "ZIPLINEE_LABEL_" + foundation.ToUpperSnakeCase(key), through getZiplineeEnvvarName
LabelEnvvarNameOf(key) ==
    getZiplineeEnvvarName(<<"Z", "I", "P", "L", "I", "N", "E", "E", "_", "L", "A", "B", "E", "L", "_">> \o ToUpperSnakeCase(key))

RECURSIVE initLabelsOf(_, _, _)
\* envvarHelper.initLabels on character strings: setZiplineeEnv for the labels keys
initLabelsOf(e, labels, keys) ==
    IF keys = {} THEN e
    ELSE LET key == CHOOSE x \in keys : TRUE
         IN initLabelsOf(Setenv(e, LabelEnvvarNameOf(key), labels[key]), labels, keys \ {key})

\* the manifest labels of the tests
TestLabels ==
    [key \in {<<"a", "p", "p">>, <<"t", "e", "a", "m">>, <<"o", "w", "n", "i", "n", "g", "T", "e", "a", "m">>} |->
        <<"c", "i">> \o key]
LabelMaps == {[key \in keys |-> TestLabels[key]] : keys \in SUBSET DOMAIN TestLabels}

\* environments of the process before the call: a variable outside the prefix, one
\* with the prefix inside its name, scoped ones whose value is plain, has a "=" in it
\* or is empty, and one a label will replace
VersionName == <<"Z", "I", "P", "L", "I", "N", "E", "E", "_", "V", "E", "R", "S", "I", "O", "N">>
OptionalVars ==
    [name \in {<<"P", "A", "T", "H">>, <<"M", "Y", "_", "Z", "I", "P", "L", "I", "N", "E", "E", "_", "X">>,
               <<"Z", "I", "P", "L", "I", "N", "E", "E", "_", "E", "M", "P", "T", "Y">>, <<"Z", "I", "P", "L", "I", "N", "E", "E", "_", "L", "A", "B", "E", "L", "_", "A", "P", "P">>} |->
        IF name = <<"Z", "I", "P", "L", "I", "N", "E", "E", "_", "E", "M", "P", "T", "Y">> THEN <<>> ELSE <<"o", "l", "d">>]
VersionValues == {<<"1", ".", "0", ".", "3">>, <<"b", "=", "c">>, <<"a", "=", "b", "=", "c">>}
ProcessEnvs ==
    {[name \in names |-> OptionalVars[name]] : names \in SUBSET DOMAIN OptionalVars}
    \cup {[name \in names \cup {VersionName} |->
              IF name = VersionName THEN v ELSE OptionalVars[name]] :
          names \in SUBSET DOMAIN OptionalVars, v \in VersionValues}

InitCollect ==
    /\ HelperOnly
    /\ \E e \in ProcessEnvs, labels \in LabelMaps :
        fn = [name |-> "CollectZiplineeEnvvarsAndLabels", args |-> labels, before |-> e,
              after |-> e, result |-> <<>>, done |-> FALSE]

\* CollectZiplineeEnvvarsAndLabels(m): initLabels, then collectZiplineeEnvvars
CallCollectZiplineeEnvvarsAndLabels ==
    /\ fn.name = "CollectZiplineeEnvvarsAndLabels"
    /\ ~fn.done
    /\ LET e == initLabelsOf(fn.before, fn.args, DOMAIN fn.args)
       IN fn' = [fn EXCEPT !.after = e, !.result = collectFromEnviron(Environ(e)),
                           !.done = TRUE]
    /\ UNCHANGED processVars

SpecCollect == InitCollect /\ [][CallCollectZiplineeEnvvarsAndLabels]_vars

\* the regular expression of getSourceFromOrigin, getOwnerFromOrigin and
\* getNameFromOrigin: ^(git@|https://)([^:\/]+)(:|/)([^\/]+)/([^\/]+)\.git
GitAt == <<"g", "i", "t", "@">>
Https == <<"h", "t", "t", "p", "s", ":", "/", "/">>
DotGit == <<".", "g", "i", "t">>

\* the longest start of str made of characters outside the set: a greedy [^...]*
RunOutside(str, chars) ==
    LET stops == {i \in DOMAIN str : str[i] \in chars}
        n == IF stops = {} THEN Len(str) ELSE (CHOOSE i \in stops : \A j \in stops : i <= j) - 1
    IN SubSeq(str, 1, n)

\* what is left of str after its first n characters
Drop(str, n) == SubSeq(str, n + 1, Len(str))

\* mutant: the last group stops at the first ".git" it meets
NameGroupLazy(run) ==
    LET ends == {k \in 1..(Len(run) - Len(DotGit)) : SubSeq(run, k + 1, k + Len(DotGit)) = DotGit}
    IN IF ends = {} THEN <<>> ELSE SubSeq(run, 1, CHOOSE k \in ends : \A j \in ends : k <= j)

\* ([^\/]+)\.git on a run without "/": the group is greedy, so it ends at the last
\* ".git" of the run; empty when the run has no ".git" behind a first character
NameGroup(run) ==
    LET ends == {k \in 1..(Len(run) - Len(DotGit)) : SubSeq(run, k + 1, k + Len(DotGit)) = DotGit}
    IN IF ends = {} THEN <<>> ELSE SubSeq(run, 1, CHOOSE k \in ends : \A j \in ends : k >= j)

\* re.FindStringSubmatch(origin): the groups 1 to 5 of the match, or nothing
FindStringSubmatch(origin) ==
    LET scheme == IF HasPrefix(origin, GitAt) THEN GitAt
                  ELSE IF HasPrefix(origin, Https) THEN Https ELSE <<>>
        afterScheme == Drop(origin, Len(scheme))
        hostGroup == RunOutside(afterScheme, {":", "/"})
        afterHost == Drop(afterScheme, Len(hostGroup))
        sep == IF afterHost = <<>> THEN <<>> ELSE <<Head(afterHost)>>
        afterSep == Drop(afterHost, 1)
        ownerGroup == RunOutside(afterSep, {"/"})
        afterOwner == Drop(afterSep, Len(ownerGroup))
        nameRun == RunOutside(Drop(afterOwner, 1), {"/"})
        nameGroup == NameGroup(nameRun)
    IN IF \/ scheme = <<>>
          \/ hostGroup = <<>>
          \/ sep = <<>>
          \/ ownerGroup = <<>>
          \/ afterOwner = <<>>
          \/ nameGroup = <<>>
       THEN <<>>
       ELSE <<origin, scheme, hostGroup, sep, ownerGroup, nameGroup>>

\* len(match) < 6 gives "", else the group asked for (match[0] is element 1 here)
getSourceFromOrigin(origin) ==
    LET match == FindStringSubmatch(origin) IN IF Len(match) < 6 THEN <<>> ELSE match[3]
getOwnerFromOrigin(origin) ==
    LET match == FindStringSubmatch(origin) IN IF Len(match) < 6 THEN <<>> ELSE match[5]
getNameFromOrigin(origin) ==
    LET match == FindStringSubmatch(origin) IN IF Len(match) < 6 THEN <<>> ELSE match[6]

\* the origins tried, put together from a scheme, a host, a separator, an owner, a
\* name and an end
OriginParts ==
    [scheme : {GitAt, Https, <<"s", "s", "h", ":", "/", "/">>, <<>>},
     host : {<<"h", ".", "i", "o">>, <<>>},
     sep : {<<":">>, <<"/">>},
     owner : {<<"o", "-", "1">>, <<>>},
     repo : {<<"n">>, <<"n", ".", "g", "i", "t">>, <<>>},
     end : {DotGit, <<>>, <<".", "g", "i", "t", "/", "x">>, <<".", "g", "i", "t", "h", "u", "b">>}]
OriginOf(p) == p.scheme \o p.host \o p.sep \o p.owner \o <<"/">> \o p.repo \o p.end

Unset == <<"unset">>

InitOrigin ==
    /\ HelperOnly
    /\ \E p \in OriginParts :
        fn = [name |-> "FromOrigin", parts |-> p, args |-> OriginOf(p),
              source |-> Unset, owner |-> Unset, repo |-> Unset]

CallGetSourceFromOrigin ==
    /\ fn.name = "FromOrigin"
    /\ fn.source = Unset
    /\ fn' = [fn EXCEPT !.source = getSourceFromOrigin(fn.args)]
    /\ UNCHANGED processVars

CallGetOwnerFromOrigin ==
    /\ fn.name = "FromOrigin"
    /\ fn.owner = Unset
    /\ fn' = [fn EXCEPT !.owner = getOwnerFromOrigin(fn.args)]
    /\ UNCHANGED processVars

CallGetNameFromOrigin ==
    /\ fn.name = "FromOrigin"
    /\ fn.repo = Unset
    /\ fn' = [fn EXCEPT !.repo = getNameFromOrigin(fn.args)]
    /\ UNCHANGED processVars

NextOrigin == CallGetSourceFromOrigin \/ CallGetOwnerFromOrigin \/ CallGetNameFromOrigin

SpecOrigin == InitOrigin /\ [][NextOrigin]_vars

\* a value is a sequence of pieces, each plain text or a secret envelope
PlainPiece == "not a secret"
SecretPlaintext == "this is my secret"
ValuePieces == {PlainPiece, GoodEnvelope, BrokenEnvelope}

RECURSIVE DecryptPieces(_)
DecryptPieces(value) ==
    IF value = <<>> THEN <<>>
    ELSE <<IF Head(value) = GoodEnvelope THEN SecretPlaintext ELSE Head(value)>>
             \o DecryptPieces(Tail(value))

\* crypt.SecretHelper.DecryptAllEnvelopes(value, pipeline): every envelope of the value
\* is replaced by its plaintext; an envelope that cannot be decrypted gives an error
DecryptAllEnvelopes(value) ==
    IF \E i \in DOMAIN value : DecryptFails(value[i])
    THEN [value |-> <<>>, err |-> "failed decrypting"]
    ELSE [value |-> DecryptPieces(value), err |-> NilErr]

\* mutant: the value of a failed decryption is lost
decryptSecretLosesValue(encryptedValue) == DecryptAllEnvelopes(encryptedValue).value

\* envvarHelper.decryptSecret: on an error a warning is logged and the value is
\* returned as it came
decryptSecret(encryptedValue) ==
    LET decrypted == DecryptAllEnvelopes(encryptedValue)
    IN IF decrypted.err # NilErr THEN encryptedValue ELSE decrypted.value

\* envvarHelper.decryptSecrets: the map itself when empty, else a new map with the
\* value of every key through decryptSecret
decryptSecrets(encryptedEnvvars) ==
    IF DOMAIN encryptedEnvvars = {} THEN encryptedEnvvars
    ELSE [k \in DOMAIN encryptedEnvvars |-> decryptSecret(encryptedEnvvars[k])]

EncryptedEnvvars ==
    UNION {[keys -> SeqsUpTo(ValuePieces, MaxPieces)] : keys \in SUBSET EnvKeys}

InitDecrypt ==
    /\ HelperOnly
    /\ \E encryptedEnvvars \in EncryptedEnvvars :
        fn = [name |-> "decryptSecrets", args |-> encryptedEnvvars, result |-> <<>>,
              done |-> FALSE]

CallDecryptSecrets ==
    /\ fn.name = "decryptSecrets"
    /\ ~fn.done
    /\ fn' = [fn EXCEPT !.result = decryptSecrets(fn.args), !.done = TRUE]
    /\ UNCHANGED processVars

SpecDecrypt == InitDecrypt /\ [][CallDecryptSecrets]_vars

(***************************************************************************)
(* whenEvaluator                                                           *)
(***************************************************************************)
\* mutant: every variable of the process is given out
getZiplineeEnvAny(e, key) == IF key \in DOMAIN e THEN e[key] ELSE <<>>

\* envvarHelper.getZiplineeEnv: os.Getenv for a key with the prefix, else "${key}"
getZiplineeEnv(e, key) ==
    LET name == getZiplineeEnvvarName(key)
    IN IF HasPrefix(name, ZiplineePrefix)
       THEN (IF name \in DOMAIN e THEN e[name] ELSE <<>>)
       ELSE <<"$", "{">> \o name \o <<"}">>

\* when expressions: an operand is a parameter, a quoted text, or a quoted ${VAR}
BranchName == <<"Z", "I", "P", "L", "I", "N", "E", "E", "_", "G", "I", "T", "_", "B", "R", "A", "N", "C", "H">>
HomeName == <<"H", "O", "M", "E">>
InsideName == <<"M", "Y", "_", "Z", "I", "P", "L", "I", "N", "E", "E", "_", "X">>
WhenOperands ==
    [param : {"branch", "status", "nope"}]
    \cup [text : {<<"m", "a", "i", "n">>, <<"s", "u", "c", "c", "e", "e", "d", "e", "d">>}]
    \cup [ref : {BranchName, HomeName, InsideName}]
\* the inputs: "", a == b, a lone operand, true, false, 1 + 1, and one that does
\* not parse
WhenInputs ==
    [kind : {"compare"}, left : WhenOperands, right : WhenOperands]
    \cup [kind : {"operand"}, left : WhenOperands]
    \cup [kind : {"", "true", "false", "1 + 1", "branch =="}]

\* os.Expand(input, getZiplineeEnv) on one operand: the reference becomes the text
\* the mapping function returns
ExpandOperand(e, operand) ==
    IF "ref" \in DOMAIN operand THEN [text |-> getZiplineeEnv(e, operand.ref)] ELSE operand

Expand(e, input) ==
    CASE input.kind = "compare" ->
            [input EXCEPT !.left = ExpandOperand(e, input.left),
                          !.right = ExpandOperand(e, input.right)]
      [] input.kind = "operand" -> [input EXCEPT !.left = ExpandOperand(e, input.left)]
      [] OTHER -> input

\* govaluate.NewEvaluableExpression: the error of an input that does not parse
NewEvaluableExpression(input) ==
    IF input.kind = "branch ==" THEN "Unexpected end of expression" ELSE NilErr

\* the value of an operand under the parameters; a parameter that is not there is
\* an error
OperandValue(operand, parameters) ==
    IF "param" \in DOMAIN operand
    THEN (IF operand.param \in DOMAIN parameters
          THEN [v |-> parameters[operand.param], err |-> NilErr]
          ELSE [v |-> <<>>, err |-> "No parameter found"])
    ELSE [v |-> operand.text, err |-> NilErr]

\* EvaluableExpression.Evaluate(parameters): the result (a boolean, another value
\* or nil) and the error; the result is nil when there is an error
EvaluateExpression(input, parameters) ==
    CASE input.kind = "compare" ->
            LET l == OperandValue(input.left, parameters)
                r == OperandValue(input.right, parameters)
            IN IF l.err # NilErr THEN [r |-> "nil", err |-> l.err]
               ELSE IF r.err # NilErr THEN [r |-> "nil", err |-> r.err]
               ELSE [r |-> IF l.v = r.v THEN "true" ELSE "false", err |-> NilErr]
      [] input.kind = "operand" ->
            LET l == OperandValue(input.left, parameters)
            IN IF l.err # NilErr THEN [r |-> "nil", err |-> l.err]
               ELSE [r |-> "string", err |-> NilErr]
      [] input.kind = "true" -> [r |-> "true", err |-> NilErr]
      [] input.kind = "false" -> [r |-> "false", err |-> NilErr]
      [] input.kind = "1 + 1" -> [r |-> "float64", err |-> NilErr]
      [] OTHER -> [r |-> "nil", err |-> NilErr]

\* mutant: a result that is no boolean is given back as false without an error
EvaluateNoTypeError(e, input, parameters) ==
    IF input.kind = ""
    THEN [result |-> FALSE, err |-> "When expression is empty", expanded |-> input]
    ELSE LET expanded == Expand(e, input)
             parseErr == NewEvaluableExpression(expanded)
             evaluated == EvaluateExpression(expanded, parameters)
         IN IF parseErr # NilErr
            THEN [result |-> FALSE, err |-> parseErr, expanded |-> expanded]
            ELSE [result |-> evaluated.r = "true", err |-> evaluated.err,
                  expanded |-> expanded]

\* whenEvaluator.Evaluate
Evaluate(e, input, parameters) ==
    IF input.kind = ""
    THEN [result |-> FALSE, err |-> "When expression is empty", expanded |-> input]
    ELSE LET expanded == Expand(e, input)
             parseErr == NewEvaluableExpression(expanded)
             evaluated == EvaluateExpression(expanded, parameters)
         IN IF parseErr # NilErr
            THEN [result |-> FALSE, err |-> parseErr, expanded |-> expanded]
            ELSE IF evaluated.r \in {"true", "false"}
                 THEN [result |-> evaluated.r = "true", err |-> evaluated.err,
                       expanded |-> expanded]
            ELSE [result |-> FALSE,
                  err |-> "Result of evaluating when expression is not of type boolean",
                  expanded |-> expanded]

\* whenEvaluator.GetParameters, the two parameters the expressions here use
GetParameters(e) ==
    [p \in {"branch", "status"} |->
        IF p = "branch" THEN getZiplineeEnv(e, BranchName)
        ELSE getZiplineeEnv(e, <<"Z", "I", "P", "L", "I", "N", "E", "E", "_", "B", "U", "I", "L", "D", "_", "S", "T", "A", "T", "U", "S">>)]

\* the environment of the process: the branch and the status are set, and variables
\* outside the prefix may be there
HomeValue == <<"/", "r", "o", "o", "t">>
WhenEnvs ==
    {[name \in {BranchName, <<"Z", "I", "P", "L", "I", "N", "E", "E", "_", "B", "U", "I", "L", "D", "_", "S", "T", "A", "T", "U", "S">>} \cup outside |->
         CASE name = BranchName -> branch
           [] name = <<"Z", "I", "P", "L", "I", "N", "E", "E", "_", "B", "U", "I", "L", "D", "_", "S", "T", "A", "T", "U", "S">> -> <<"s", "u", "c", "c", "e", "e", "d", "e", "d">>
           [] OTHER -> HomeValue] :
     branch \in {<<"m", "a", "i", "n">>, <<"d", "e", "v">>}, outside \in {{}, {HomeName, InsideName}}}

InitWhen ==
    /\ HelperOnly
    /\ \E e \in WhenEnvs, input \in WhenInputs :
        fn = [name |-> "Evaluate", args |-> input, before |-> e, result |-> FALSE,
              err |-> NilErr, expanded |-> input, done |-> FALSE]

CallEvaluate ==
    /\ fn.name = "Evaluate"
    /\ ~fn.done
    /\ LET out == Evaluate(fn.before, fn.args, GetParameters(fn.before))
       IN fn' = [fn EXCEPT !.result = out.result, !.err = out.err,
                           !.expanded = out.expanded, !.done = TRUE]
    /\ UNCHANGED processVars

SpecWhen == InitWhen /\ [][CallEvaluate]_vars

(***************************************************************************)
(* Properties                                                              *)
(***************************************************************************)
IsPrefix(a, b) == Len(a) <= Len(b) /\ \A i \in DOMAIN a : a[i] = b[i]

Ops(s) == [i \in DOMAIN s |-> s[i].op]

IsEvent(r) == r.op \in {"Started", "Finished", "Cleaned"}

IsLogs(r) == r.op = "Logs"

IsIssued(r) == r.issued

\* the lifecycle events the main goroutine has reported, in order
Events == SelectSeq(sent, IsEvent)

\* the log sends performed, in order
LogSends == SelectSeq(sent, IsLogs)

\* the complete end-of-life sequences: one log send, or two with the slim fallback
CompleteRuns ==
    {<<"Started", "Finished", "Logs", "Cleaned">>,
     <<"Started", "Finished", "Logs", "Logs", "Cleaned">>}

\* what the control plane tells the three events apart by
WireShape(r) ==
    CASE r.op = "Started" -> r.type = BuildEventTypeUpdateStatus /\ r.status = LogStatusRunning
      [] r.op = "Finished" -> r.type = BuildEventTypeUpdateStatus /\ r.status # LogStatusRunning
      [] r.op = "Cleaned" -> r.type = BuildEventTypeClean

\* C1: in a hosted-job run the lifecycle events reported (and the event requests
\* issued) always form a prefix of Started, Finished, Cleaned: each at most
\* once, never out of order, on the normal path and on every HandleFatal path.
C1_EventsPrefix ==
    /\ IsPrefix(Ops(Events), <<"Started", "Finished", "Cleaned">>)
    /\ IsPrefix(Ops(SelectSeq(Events, IsIssued)), <<"Started", "Finished", "Cleaned">>)
    /\ \A i \in DOMAIN Events : WireShape(Events[i])

C1_Witness ==
    /\ pc = "exited"
    /\ mode = "fatal"
    /\ Ops(SelectSeq(Events, IsIssued)) = <<"Started", "Finished", "Cleaned">>

\* C2: on every path by which the process exits after Started was sent, Finished
\* and then Cleaned are sent before the exit.
C2_FinishedCleanedBeforeExit ==
    (pc = "exited" /\ Len(sent) > 0) => Ops(Events) = <<"Started", "Finished", "Cleaned">>

\* the calls HandleFatal has made so far (HandleFatal is entered after Started
\* and before any other reporter call)
FatalCalls == Tail(sent)

HasInitStep(steps) ==
    /\ Len(steps) > 0
    /\ steps[Len(steps)].Step = "init"
    /\ steps[Len(steps)].Status = LogStatusFailed

\* C3: HandleFatal appends a failed step named init to the build log, then
\* sends Finished(failed), the build log holding the init step, Cleaned(failed),
\* in this order, and then ends the process without returning to its caller.
C3_HandleFatalSequence ==
    mode = "fatal" =>
        /\ HasInitStep(Deref(heap, arg))
        /\ pc \in {"finished", "logs", "slim", "cleaned", "exit", "exited"}
        /\ \/ IsPrefix(Ops(FatalCalls), <<"Finished", "Logs", "Cleaned">>)
           \/ IsPrefix(Ops(FatalCalls), <<"Finished", "Logs", "Logs", "Cleaned">>)
        /\ \A i \in DOMAIN FatalCalls :
            /\ IsEvent(FatalCalls[i]) => FatalCalls[i].status = LogStatusFailed
            /\ (IsLogs(FatalCalls[i]) /\ FatalCalls[i].issued) => HasInitStep(FatalCalls[i].payload)
        /\ pc \in {"exit", "exited"} => Ops(sent) \in CompleteRuns
        /\ pc = "exited" => exitCode \in {0, 1}

C3_Witness ==
    /\ mode = "fatal"
    /\ pc = "exited"
    /\ Len(FatalCalls) = 3
    /\ \A i \in DOMAIN FatalCalls : FatalCalls[i].issued /\ FatalCalls[i].ok

\* C4: the status carried by Cleaned equals the status carried by Finished: the
\* aggregated status of the steps RunStages returned on the normal path, failed
\* on a HandleFatal path.
C4_CleanedStatusIsFinishedStatus ==
    \A i \in DOMAIN sent :
        sent[i].op \in {"Finished", "Cleaned"} =>
            sent[i].status = IF mode = "fatal" THEN LogStatusFailed
                             ELSE GetAggregatedStatus(Deref(heap, buildLog))

C4_Witness ==
    /\ mode = "run"
    /\ \E i, j \in DOMAIN sent :
        /\ sent[i].op = "Finished"
        /\ sent[j].op = "Cleaned"
        /\ sent[i].status = LogStatusFailed
        /\ sent[j].status = LogStatusFailed

\* C5: with run-as-job the process exits with code 0 on every path; without
\* run-as-job a HandleFatal path exits non-zero.
C5_ExitCode ==
    pc = "exited" =>
        /\ runAsJob => exitCode = 0
        /\ (~runAsJob /\ mode = "fatal") => exitCode # 0

LinesObfuscated(step) ==
    \A i \in DOMAIN step.LogLines : Obfuscate(step.LogLines[i].Text) = step.LogLines[i].Text

\* C6: every log line of a build log sent to the log endpoint has passed through
\* the Obfuscator (so its text holds no registered secret), the lines of the
\* init step HandleFatal appends included.
C6_SentLinesObfuscated ==
    \A i \in DOMAIN sent :
        (IsLogs(sent[i]) /\ sent[i].issued) =>
            \A j \in DOMAIN sent[i].payload :
                /\ LinesObfuscated(sent[i].payload[j])
                /\ \A k \in DOMAIN sent[i].payload[j].NestedSteps :
                    LinesObfuscated(sent[i].payload[j].NestedSteps[k])

\* at most one line, and that line is the truncation marker
IsSlim(step) ==
    /\ Len(step.LogLines) <= 1
    /\ \A i \in DOMAIN step.LogLines : step.LogLines[i].Text = TruncatedText

\* C7: when the first log send fails, the payload of the second send holds, for
\* every step that was Succeeded in the original build log, at any nesting
\* depth, at most one log line, whose text is the truncation marker.
C7_SlimAtAnyDepth ==
    Len(LogSends) = 2 =>
        LET orig == LogSends[1].payload
            slim == LogSends[2].payload
        IN \A i \in DOMAIN orig :
            /\ orig[i].Status = LogStatusSucceeded => IsSlim(slim[i])
            /\ \A k \in DOMAIN orig[i].NestedSteps :
                orig[i].NestedSteps[k].Status = LogStatusSucceeded
                    => IsSlim(slim[i].NestedSteps[k])

\* C8: SendBuildJobLogEvent sends once when the first send succeeds and twice
\* when it fails, the second time with the slim payload; never a third time;
\* and it returns the outcome of the last send performed.
C8_LogSendCount ==
    /\ Len(LogSends) <= 2
    /\ Len(LogSends) = 2 =>
        /\ ~LogSends[1].ok
        /\ \A i \in DOMAIN LogSends[1].payload :
            LogSends[1].payload[i].Status = LogStatusSucceeded => IsSlim(LogSends[2].payload[i])
    /\ logResult # "none" =>
        /\ Len(LogSends) = IF LogSends[1].ok THEN 1 ELSE 2
        /\ logResult = IF LogSends[Len(LogSends)].ok THEN "nil" ELSE "err"

C8_Witness ==
    /\ Len(LogSends) = 2
    /\ logResult = "err"
    /\ \E i \in DOMAIN LogSends[1].payload :
        /\ LogSends[1].payload[i].Status = LogStatusSucceeded
        /\ Len(LogSends[1].payload[i].LogLines) = MaxLines

JobNameHeader == "X-Ziplinee-Event-Job-Name"

Requests == {sent[i] : i \in DOMAIN sent} \cup {cancels[i] : i \in DOMAIN cancels}

C10_FailuresNotEscalated ==
    /\ pc = "unset" => Ops(sent) = <<"Started">>
    /\ (pc = "exited" /\ mode = "run") =>
        /\ Ops(sent) \in CompleteRuns
        /\ ranStages
        /\ exitCode = IF runAsJob \/ \A a \in DOMAIN heap : heap[a].Status = LogStatusSucceeded
                      THEN 0 ELSE 1
    /\ (pc = "exited" /\ mode = "fatal") =>
        /\ Ops(sent) \in CompleteRuns
        /\ exitCode = IF runAsJob THEN 0 ELSE 1

C10_Witness ==
    /\ pc = "exited"
    /\ mode = "run"
    /\ Len(sent) = 5
    /\ \A i \in DOMAIN sent : sent[i].issued /\ ~sent[i].ok

(***************************************************************************)
(* C11: in a hosted-job run that is still alive at that moment, the        *)
(* background timer invokes CancelJob at JWTExpiry minus 15 minutes, not   *)
(* at or after JWTExpiry: every CancelJob call happens at that instant,    *)
(* and a live run whose timer has not fired has not passed that instant.   *)
(***************************************************************************)
C11_CancelFifteenMinutesBeforeExpiry ==
    /\ \A i \in DOMAIN cancels : cancels[i].at = cfg.jwtExpiry - FifteenMinutes
    /\ (timer = "armed" /\ Alive) => now <= cfg.jwtExpiry - FifteenMinutes

\* position of the first occurrence of call c in the sequence s, 0 when absent
IndexOf(c, s) ==
    IF \E i \in DOMAIN s : s[i] = c
    THEN CHOOSE i \in DOMAIN s : s[i] = c /\ \A j \in DOMAIN s : s[j] = c => i <= j
    ELSE 0

\* call a occurs in s, and before the first occurrence of call b
Before(a, b, s) == IndexOf(a, s) > 0 /\ IndexOf(a, s) < IndexOf(b, s)

Last(s) == s[Len(s)]

(***************************************************************************)
(* C12: in every entry point that runs stages (hosted job, external agent, *)
(* local build), RunStages is invoked only after the Obfuscator's          *)
(* CollectSecrets has returned without error; when CollectSecrets fails,   *)
(* no stage is run.                                                        *)
(***************************************************************************)
C12_StagesAfterCollectSecrets ==
    /\ ranStages => Before("CollectSecrets", "RunStages", calls)
    /\ (calls # <<>> /\ Last(calls) = "CollectSecrets" /\ mode \in {"abort", "fatal", "error"})
          => ~ranStages

(***************************************************************************)
(* C13: the steps of an external-agent run are those of the hosted job     *)
(* with the daemon bootstrap and the control-plane reporting removed: the  *)
(* agent run starts the cancellation watcher before RunStages, and the     *)
(* watcher start, the seeding of the environment, the collection of the    *)
(* secrets and RunStages come in the relative order of the hosted job.     *)
(***************************************************************************)
\* the calls of a hosted-job run that reaches RunStages, in program order
HostedCalls ==
    <<"SendBuildStartedEvent", "StartCancelTimer", "UnsetZiplineeEnvvars",
      "SetZiplineeBuilderConfigEnvvars", "StartDockerDaemon", "WaitForDockerDaemon",
      "StopPipelineOnCancellation", "GetWorkDir", "SetZiplineeGlobalEnvvars",
      "GetPipelineName", "CollectSecrets", "CreateDockerClient",
      "CollectZiplineeEnvvarsAndLabels", "RunStages">>

\* in the hosted-job specification the call history follows HostedCalls
HostedCallsInOrder == IsPrefix(calls, HostedCalls)

SharedSteps ==
    {"StopPipelineOnCancellation", "SetZiplineeGlobalEnvvars", "CollectSecrets", "RunStages"}

C13_AgentRunFollowsHostedOrder ==
    (entry = "gocd" /\ ranStages) =>
        /\ Before("StopPipelineOnCancellation", "RunStages", calls)
        /\ \A a, b \in SharedSteps : Before(a, b, HostedCalls) => Before(a, b, calls)

(***************************************************************************)
(* C14: every setup failure of a hosted-job run (docker daemon start,      *)
(* credential decryption, secret collection) is reported through           *)
(* HandleFatal, so that Finished(failed), the logs and Cleaned(failed) are *)
(* sent before the process exits.                                          *)
(***************************************************************************)
SetupFailed ==
    /\ calls # <<>>
    /\ Last(calls) \in {"StartDockerDaemon", "DecryptAllEnvelopes", "CollectSecrets"}
    /\ mode \in {"abort", "fatal"}

C14_SetupFailuresReported ==
    (ciServer = "ziplinee" /\ pc = "exited" /\ SetupFailed) =>
        /\ mode = "fatal"
        /\ \E i, j, k \in DOMAIN sent :
              /\ i < j /\ j < k
              /\ sent[i].op = "Finished" /\ sent[i].status = LogStatusFailed
              /\ sent[j].op = "Logs"
              /\ sent[k].op = "Cleaned" /\ sent[k].status = LogStatusFailed

(***************************************************************************)
(* C15: loadBuilderConfig accepts a configuration only when exactly one of *)
(* BUILDER_CONFIG and BUILDER_CONFIG_PATH is set: it exits fatally both    *)
(* when neither is set and when both are set.                              *)
(***************************************************************************)
PathSet == args.builderConfigPath # ""
FlagSet == args.builderConfigFlag # ""
LoadStarted == entry # "local" /\ pc # "load"

C15_ExactlyOneSource ==
    /\ configSource # "" => (PathSet # FlagSet)
    /\ (LoadStarted /\ PathSet = FlagSet) => (pc = "exited" /\ exitCode = 1 /\ configSource = "")

\* C15 as the code has it: loadBuilderConfig exits fatally only when neither is
\* set; when both are set the path wins and the flag is ignored (BUILDER_CONFIG
\* stays in the environment); the flag is used, and BUILDER_CONFIG unset, only
\* when the path is empty.
C15_AtLeastOneSourcePathFirst ==
    /\ configSource # "" => (PathSet \/ FlagSet)
    /\ configSource = "file" => PathSet
    /\ configSource = "flag" => (~PathSet /\ FlagSet /\ "BUILDER_CONFIG" \notin DOMAIN env)
    /\ (LoadStarted /\ ~PathSet /\ ~FlagSet) =>
          (pc = "exited" /\ exitCode = 1 /\ configSource = "" /\ calls = <<>>)
    /\ (LoadStarted /\ PathSet) => (configSource = "file" \/ Last(calls) = "ReadFile")
    /\ (LoadStarted /\ PathSet /\ FlagSet /\ configSource = "file" /\ pc # "exited"
          /\ entry = "main") => Getenv(env, "BUILDER_CONFIG") = args.builderConfigFlag

C15_Witness ==
    /\ PathSet /\ FlagSet
    /\ configSource = "file"
    /\ pc = "detect"

(***************************************************************************)
(* C16: in a hosted-job run, no prefix-scoped variable in the env map      *)
(* passed to RunStages carries a value inherited from the host: every      *)
(* prefix-scoped entry was set by the builder after UnsetZiplineeEnvvars,  *)
(* so the prefix-scoped entries depend on the config alone (the build      *)
(* datetime aside) and not on the host's prefix-scoped variables.          *)
(***************************************************************************)
\* the prefix-scoped entries the builder sets from the config c
ScopedFromConfig(c) ==
    [k \in {"ZIPLINEE_GIT_SOURCE", "ZIPLINEE_GIT_OWNER", "ZIPLINEE_GIT_NAME",
            "ZIPLINEE_BUILD_DATETIME", "ZIPLINEE_BUILD_STATUS", "ZIPLINEE_LABEL_TEAM"} |->
        CASE k = "ZIPLINEE_GIT_SOURCE" -> c.repoSource
          [] k = "ZIPLINEE_GIT_OWNER" -> c.repoOwner
          [] k = "ZIPLINEE_GIT_NAME" -> c.repoName
          [] k = "ZIPLINEE_BUILD_DATETIME" -> "now"
          [] k = "ZIPLINEE_BUILD_STATUS" -> "succeeded"
          [] k = "ZIPLINEE_LABEL_TEAM" -> c.manifest.labels["team"]]

C16_NoHostValueInStageEnv ==
    (entry = "job" /\ ranStages) =>
        /\ \A k \in DOMAIN envvars \cap PrefixScoped : envvars[k] # "from-host"
        /\ [k \in DOMAIN envvars \cap PrefixScoped |-> envvars[k]] = ScopedFromConfig(cfg)

C16_Witness ==
    /\ entry = "job"
    /\ ranStages
    /\ DOMAIN HostScoped \subseteq DOMAIN host
    /\ \A k \in DOMAIN HostScoped : host[k] = "from-host"
    /\ "ZIPLINEE_BUILD_DATETIME" \in DOMAIN envvars

(***************************************************************************)
(* C17: OverrideEnvvars over any list of maps returns a new map whose key  *)
(* set is the union of the inputs' key sets and whose value for each key   *)
(* is the value from the last input map that contains the key; no input    *)
(* map is modified.                                                        *)
(***************************************************************************)
\* index of the last map of the list that contains key k
LastWith(maps, k) ==
    CHOOSE i \in DOMAIN maps :
        k \in DOMAIN maps[i] /\ \A j \in DOMAIN maps : k \in DOMAIN maps[j] => j <= i

C17_OverrideRightWins ==
    (fn.name = "OverrideEnvvars" /\ fn.done) =>
        /\ DOMAIN fn.result = UNION {DOMAIN fn.args[i] : i \in DOMAIN fn.args}
        /\ \A k \in DOMAIN fn.result : fn.result[k] = fn.args[LastWith(fn.args, k)][k]
        /\ fn.fresh
        /\ fn.mem = fn.args

C17_Witness ==
    /\ fn.name = "OverrideEnvvars"
    /\ fn.done
    /\ Len(fn.args) = 2
    /\ "A" \in DOMAIN fn.args[1] \cap DOMAIN fn.args[2]
    /\ fn.args[1]["A"] # fn.args[2]["A"]
    /\ "B" \in DOMAIN fn.args[1] \ DOMAIN fn.args[2]
    /\ fn.result = [k \in {"A", "B"} |-> IF k = "A" THEN fn.args[2]["A"] ELSE fn.args[1]["B"]]

(***************************************************************************)
(* C18: makeDNSLabelSafe is idempotent: applied to its own result it       *)
(* returns that result, also for values with runs of three or more         *)
(* hyphens and for values that mix invalid characters with hyphens.        *)
(***************************************************************************)
C18_MakeDNSLabelSafeIdempotent ==
    (fn.name = "makeDNSLabelSafe" /\ fn.step = 2) => fn.again = fn.result

(***************************************************************************)
(* C19: the result of makeDNSLabelSafe is empty, or it has at most 63      *)
(* characters, only lowercase letters, digits and hyphens, a letter first  *)
(* and no hyphen last, also when the cut at 63 exposes a trailing hyphen.  *)
(***************************************************************************)
C19_DNSLabelShape ==
    (fn.name = "makeDNSLabelSafe" /\ fn.step >= 1) =>
        \/ fn.result = <<>>
        \/ /\ Len(fn.result) <= LabelMax
           /\ \A i \in DOMAIN fn.result : IsLabelChar(fn.result[i])
           /\ fn.result[1] \in LowerLetters
           /\ fn.result[Len(fn.result)] # Hyphen

\* a value whose 63rd character after cleaning is a hyphen: the cut exposes it
C19_Witness ==
    /\ fn.name = "makeDNSLabelSafe"
    /\ fn.step >= 1
    /\ Len(fn.args) > LabelMax
    /\ fn.args[LabelMax] = Hyphen
    /\ fn.args[LabelMax + 1] \in LowerLetters
    /\ fn.result = Padding(LabelMax - 1)

(***************************************************************************)
(* C20: for an event with a payload, setZiplineeEventEnvvars sets          *)
(* ZIPLINEE_TRIGGER_<KIND>_<FIELD> for each field exactly when the event   *)
(* is fired and ZIPLINEE_TRIGGER_<NAME>_<FIELD> exactly when the event has *)
(* a non-empty Name; an event neither fired nor named sets no variable.    *)
(***************************************************************************)
\* the names of the variables event number n set
SetBy(n) == {fn.result[w].name : w \in {v \in DOMAIN fn.result : fn.result[v].event = n}}

C20_TriggerEnvvarsExactlyWhen ==
    (fn.name = "setZiplineeEventEnvvars" /\ fn.done) =>
        \A n \in DOMAIN fn.args :
            LET e == fn.args[n]
            IN /\ e.payload # "" =>
                    \A j \in DOMAIN TriggerPropertyFields[e.payload] :
                        LET field == TriggerPropertyFields[e.payload][j].name
                        IN /\ TriggerEnvvarName(TriggerFieldName[e.payload], field) \in SetBy(n)
                               <=> e.Fired
                           /\ TriggerEnvvarName(e.Name, field) \in SetBy(n)
                               <=> e.Name # <<>>
               /\ (~e.Fired /\ e.Name = <<>>) => SetBy(n) = {}

(***************************************************************************)
(* C21: CollectZiplineeEnvvarsAndLabels sets ZIPLINEE_LABEL_<UPPER_SNAKE(k)>*)
(* = v for every manifest label k: v and returns exactly the variables of  *)
(* the process whose name starts with the prefix: none outside the prefix, *)
(* none of the scoped ones missing, a value with "=" in it whole.          *)
(***************************************************************************)
\* the variable a label is to become
LabelVariable(k) == ZiplineePrefix \o <<"L", "A", "B", "E", "L", "_">> \o ToUpperSnakeCase(k)

C21_CollectLabelsAndScoped ==
    (fn.name = "CollectZiplineeEnvvarsAndLabels" /\ fn.done) =>
        LET labelled == {LabelVariable(k) : k \in DOMAIN fn.args}
            scoped == {n \in DOMAIN fn.before : HasPrefix(n, ZiplineePrefix)}
        IN /\ \A k \in DOMAIN fn.args :
                  /\ LabelVariable(k) \in DOMAIN fn.after
                  /\ fn.after[LabelVariable(k)] = fn.args[k]
           /\ DOMAIN fn.result = scoped \cup labelled
           /\ \A n \in DOMAIN fn.result :
                  fn.result[n] = IF n \in labelled
                                 THEN fn.args[CHOOSE k \in DOMAIN fn.args : LabelVariable(k) = n]
                                 ELSE fn.before[n]

C21_Witness ==
    /\ fn.name = "CollectZiplineeEnvvarsAndLabels"
    /\ fn.done
    /\ <<"M", "Y", "_", "Z", "I", "P", "L", "I", "N", "E", "E", "_", "X">> \in DOMAIN fn.before
    /\ <<"P", "A", "T", "H">> \in DOMAIN fn.before
    /\ <<"o", "w", "n", "i", "n", "g", "T", "e", "a", "m">> \in DOMAIN fn.args
    /\ DOMAIN fn.result = {VersionName, <<"Z", "I", "P", "L", "I", "N", "E", "E", "_", "L", "A", "B", "E", "L", "_", "O", "W", "N", "I", "N", "G", "_", "T", "E", "A", "M">>}
    /\ fn.result[VersionName] = <<"a", "=", "b", "=", "c">>

(***************************************************************************)
(* C22: for an origin git@host:owner/name.git or                           *)
(* https://host/owner/name.git the three functions return host, owner and  *)
(* name; for an origin the pattern does not match all three return the     *)
(* empty string.                                                           *)
(***************************************************************************)
\* the origin is one of the two forms, with the host, owner and name of its parts
OfTheForm(p) ==
    /\ \/ p.scheme = GitAt /\ p.sep = <<":">>
       \/ p.scheme = Https /\ p.sep = <<"/">>
    /\ p.host # <<>>
    /\ p.owner # <<>>
    /\ p.repo # <<>>
    /\ p.end = DotGit

\* the pattern matches a start of the origin: some cut of the origin into the groups
MatchesPattern(origin) ==
    \E a \in {Len(GitAt), Len(Https)} :
        /\ a <= Len(origin)
        /\ SubSeq(origin, 1, a) \in {GitAt, Https}
        /\ \E b \in (a + 2)..Len(origin) :
            /\ \A i \in (a + 1)..(b - 1) : origin[i] \notin {":", "/"}
            /\ origin[b] \in {":", "/"}
            /\ \E c \in (b + 2)..Len(origin) :
                /\ \A i \in (b + 1)..(c - 1) : origin[i] # "/"
                /\ origin[c] = "/"
                /\ \E d \in (c + 1)..(Len(origin) - Len(DotGit)) :
                    /\ \A i \in (c + 1)..d : origin[i] # "/"
                    /\ SubSeq(origin, d + 1, d + Len(DotGit)) = DotGit

C22_OriginRoundTrip ==
    fn.name = "FromOrigin" =>
        /\ OfTheForm(fn.parts) =>
              /\ fn.source \in {Unset, fn.parts.host}
              /\ fn.owner \in {Unset, fn.parts.owner}
              /\ fn.repo \in {Unset, fn.parts.repo}
        /\ ~MatchesPattern(fn.args) =>
              /\ fn.source \in {Unset, <<>>}
              /\ fn.owner \in {Unset, <<>>}
              /\ fn.repo \in {Unset, <<>>}
        /\ MatchesPattern(fn.args) =>
              /\ fn.source # <<>>
              /\ fn.owner # <<>>
              /\ fn.repo # <<>>

C22_Witness ==
    /\ fn.name = "FromOrigin"
    /\ OfTheForm(fn.parts)
    /\ fn.parts.scheme = GitAt
    /\ fn.parts.repo = <<"n", ".", "g", "i", "t">>
    /\ fn.source = <<"h", ".", "i", "o">>
    /\ fn.owner = <<"o", "-", "1">>
    /\ fn.repo = <<"n", ".", "g", "i", "t">>

(***************************************************************************)
(* C23: decryptSecrets returns a map with the key set of its input; a      *)
(* value is the decrypted plaintext when decryption succeeds and the       *)
(* input value when it holds no envelope or decryption fails; a failure    *)
(* neither ends the process nor drops the key.                             *)
(***************************************************************************)
HasEnvelope(value) == \E i \in DOMAIN value : value[i] \in {GoodEnvelope, BrokenEnvelope}
HasBrokenEnvelope(value) == \E i \in DOMAIN value : value[i] = BrokenEnvelope

C23_DecryptKeepsKeys ==
    (fn.name = "decryptSecrets" /\ fn.done) =>
        /\ DOMAIN fn.result = DOMAIN fn.args
        /\ \A k \in DOMAIN fn.args :
              IF ~HasEnvelope(fn.args[k]) \/ HasBrokenEnvelope(fn.args[k])
              THEN fn.result[k] = fn.args[k]
              ELSE /\ Len(fn.result[k]) = Len(fn.args[k])
                   /\ \A i \in DOMAIN fn.args[k] :
                         fn.result[k][i] = IF fn.args[k][i] = GoodEnvelope
                                           THEN SecretPlaintext ELSE fn.args[k][i]
        /\ exitCode = -1

C23_Witness ==
    /\ fn.name = "decryptSecrets"
    /\ fn.done
    /\ fn.args = [k \in {"A", "B"} |->
                     IF k = "A" THEN <<PlainPiece, GoodEnvelope>> ELSE <<GoodEnvelope, BrokenEnvelope>>]
    /\ fn.result["A"] = <<PlainPiece, SecretPlaintext>>
    /\ fn.result["B"] = <<GoodEnvelope, BrokenEnvelope>>

(***************************************************************************)
(* C24: Evaluate returns true without an error only for a non-empty        *)
(* expression that parses and evaluates to the boolean true; for an empty  *)
(* expression, a parse or evaluation failure or a result that is no        *)
(* boolean it returns false and an error.                                  *)
(***************************************************************************)
\* what the expression is worth, told from the input and the environment alone
ComparesEqual(input, e) ==
    LET worth(operand) ==
            IF "param" \in DOMAIN operand
            THEN (IF operand.param = "branch" THEN e[BranchName] ELSE e[<<"Z", "I", "P", "L", "I", "N", "E", "E", "_", "B", "U", "I", "L", "D", "_", "S", "T", "A", "T", "U", "S">>])
            ELSE IF "text" \in DOMAIN operand THEN operand.text
            ELSE IF operand.ref = BranchName THEN e[BranchName]
            ELSE <<"$", "{">> \o operand.ref \o <<"}">>
    IN worth(input.left) = worth(input.right)

UsesUnknownParameter(input) ==
    \/ input.kind \in {"compare", "operand"} /\ input.left = [param |-> "nope"]
    \/ input.kind = "compare" /\ input.right = [param |-> "nope"]

EvaluatesToTrue(input, e) ==
    \/ input.kind = "true"
    \/ input.kind = "compare" /\ ~UsesUnknownParameter(input) /\ ComparesEqual(input, e)

EvaluatesToFalse(input, e) ==
    \/ input.kind = "false"
    \/ input.kind = "compare" /\ ~UsesUnknownParameter(input) /\ ~ComparesEqual(input, e)

C24_TrueOnlyForBooleanTrue ==
    (fn.name = "Evaluate" /\ fn.done) =>
        /\ (fn.result /\ fn.err = NilErr) <=> EvaluatesToTrue(fn.args, fn.before)
        /\ EvaluatesToFalse(fn.args, fn.before) => (~fn.result /\ fn.err = NilErr)
        /\ (~EvaluatesToTrue(fn.args, fn.before) /\ ~EvaluatesToFalse(fn.args, fn.before))
              => (~fn.result /\ fn.err # NilErr)

C24_Witness ==
    /\ fn.name = "Evaluate"
    /\ fn.done
    /\ fn.args = [kind |-> "compare", left |-> [param |-> "nope"], right |-> [text |-> <<"m", "a", "i", "n">>]]
    /\ ~fn.result
    /\ fn.err # NilErr

(***************************************************************************)
(* C25: getZiplineeEnv gives the value of the process for a key with the   *)
(* prefix and the text ${KEY} for any other key, so a ${VAR} of a when     *)
(* expression is never replaced by the value of a variable outside the     *)
(* prefix.                                                                 *)
(***************************************************************************)
\* the operands of an expression after the expansion, next to what they were
ExpandedOperands ==
    IF fn.args.kind = "compare"
    THEN {<<fn.args.left, fn.expanded.left>>, <<fn.args.right, fn.expanded.right>>}
    ELSE IF fn.args.kind = "operand" THEN {<<fn.args.left, fn.expanded.left>>}
    ELSE {}

C25_NoValueFromOutsideThePrefix ==
    (fn.name = "Evaluate" /\ fn.done) =>
        \A pair \in ExpandedOperands :
            "ref" \in DOMAIN pair[1] =>
                /\ "text" \in DOMAIN pair[2]
                /\ HasPrefix(pair[1].ref, ZiplineePrefix) => pair[2].text = fn.before[pair[1].ref]
                /\ ~HasPrefix(pair[1].ref, ZiplineePrefix) =>
                      /\ pair[2].text = <<"$", "{">> \o pair[1].ref \o <<"}">>
                      /\ pair[2].text # HomeValue

C25_Witness ==
    /\ fn.name = "Evaluate"
    /\ fn.done
    /\ HomeName \in DOMAIN fn.before
    /\ fn.args.kind = "compare"
    /\ fn.args.left = [ref |-> HomeName]
    /\ fn.args.right = [ref |-> BranchName]
    /\ fn.expanded.left = [text |-> <<"$", "{", "H", "O", "M", "E", "}">>]
    /\ fn.expanded.right = [text |-> fn.before[BranchName]]

(***************************************************************************)
(* C26: the slim payload sent after a failed first send has the steps of   *)
(* the build log in their order; a step that is not Succeeded keeps its    *)
(* log lines, a Succeeded step without lines stays empty, and the one      *)
(* truncation line of a Succeeded step has the line number and the         *)
(* timestamp of the first line the step had.                               *)
(***************************************************************************)
\* SendBuildJobLogEvent posted the log and then the slim log
SlimWasSent ==
    /\ Len(sent) = 2
    /\ sent[1].op = "Logs" /\ sent[1].issued
    /\ sent[2].op = "Logs" /\ sent[2].issued

C26_SlimPayloadKeepsSteps ==
    SlimWasSent =>
        LET original == sent[1].payload
            slim == sent[2].payload
        IN /\ Len(slim) = Len(original)
           /\ \A i \in DOMAIN original :
                 /\ slim[i].Step = original[i].Step
                 /\ slim[i].Status = original[i].Status
                 /\ original[i].Status # LogStatusSucceeded =>
                       slim[i].LogLines = original[i].LogLines
                 /\ (original[i].Status = LogStatusSucceeded /\ original[i].LogLines = <<>>) =>
                       slim[i].LogLines = <<>>
                 /\ (original[i].Status = LogStatusSucceeded /\ original[i].LogLines # <<>>) =>
                       /\ Len(slim[i].LogLines) = 1
                       /\ slim[i].LogLines[1].Text = TruncatedText
                       /\ slim[i].LogLines[1].LineNumber = original[i].LogLines[1].LineNumber
                       /\ slim[i].LogLines[1].Timestamp = original[i].LogLines[1].Timestamp

C26_Witness ==
    /\ SlimWasSent
    /\ Len(sent[1].payload) = 2
    /\ sent[1].payload[1].Status = LogStatusSucceeded
    /\ Len(sent[1].payload[1].LogLines) = MaxLines
    /\ sent[1].payload[2].Status = LogStatusFailed
    /\ Len(sent[1].payload[2].LogLines) = MaxLines
    /\ Len(sent[2].payload[1].LogLines) = 1
    /\ Len(sent[2].payload[2].LogLines) = MaxLines

(***************************************************************************)
(* C27: SendBuildJobLogEvent leaves the build log of its caller as it was: *)
(* whether the first send succeeded or the slim log was sent, every step   *)
(* the build log points to keeps its log lines.                            *)
(***************************************************************************)
\* a step of SendBuildJobLogEvent leaves the steps of the caller's log as they are
KeepsCallerLog == (pc \in {"logs", "slim"}) => (Deref(heap', buildLog) = Deref(heap, buildLog))

C27_CallerLogUnchanged == [][KeepsCallerLog]_vars

(***************************************************************************)
(* C28: the log lines of the init step HandleFatal builds are numbered     *)
(* 1, 2, ... in their order, with or without an error and with or without  *)
(* a message.                                                              *)
(***************************************************************************)
\* the step HandleFatal appended to its copy of the build log
InitStep == heap[arg[Len(arg)]]

C28_InitStepLinesNumbered ==
    mode = "fatal" =>
        /\ InitStep.Step = "init"
        /\ Len(InitStep.LogLines) =
              (IF fn.err # NilErr THEN 1 ELSE 0) + (IF fn.message # "" THEN 1 ELSE 0)
        /\ \A i \in DOMAIN InitStep.LogLines : InitStep.LogLines[i].LineNumber = i

C28_Witness ==
    /\ mode = "fatal"
    /\ fn.name = "HandleFatal"
    /\ fn.err # NilErr
    /\ fn.message # ""
    /\ Len(InitStep.LogLines) = 2
    /\ InitStep.LogLines[1].Text = fn.err
    /\ InitStep.LogLines[2].LineNumber = 2
    /\ pc = "exited"

(***************************************************************************)
(* C29: in a hosted-job run, when RunStages returns an error, HandleFatal  *)
(* is called only if the build log it returned has a step of unknown       *)
(* status; else the error is dropped: no init step is added, and Finished, *)
(* the logs and Cleaned are sent with the aggregated status of the steps.  *)
(***************************************************************************)
ErrorDropped == ranStages /\ fn.err # NilErr /\ ~HasUnknownStatus(fn.steps)

C29_StageErrorFatalOnlyWithUnknownStatus ==
    (fn.name = "RunStages" /\ ranStages) =>
        /\ mode = "fatal" => (fn.err # NilErr /\ HasUnknownStatus(fn.steps))
        /\ ErrorDropped =>
              /\ mode = "run"
              /\ Len(heap) = Len(fn.steps)
              /\ \A i \in DOMAIN heap : heap[i].Step # "init"
              /\ \A i \in DOMAIN sent :
                    /\ IsEvent(sent[i]) => sent[i].status = GetAggregatedStatus(fn.steps)
                    /\ IsLogs(sent[i]) => Len(sent[i].payload) = Len(fn.steps)
              /\ \/ IsPrefix(Ops(sent), <<"Finished", "Logs", "Cleaned">>)
                 \/ IsPrefix(Ops(sent), <<"Finished", "Logs", "Logs", "Cleaned">>)
              /\ pc = "exited" => Ops(sent)[Len(sent)] = "Cleaned"

C29_Witness ==
    /\ fn.name = "RunStages"
    /\ ErrorDropped
    /\ GetAggregatedStatus(fn.steps) = LogStatusFailed
    /\ pc = "exited"
    /\ Ops(sent) = <<"Finished", "Logs", "Cleaned">>
    /\ sent[1].status = LogStatusFailed
    /\ sent[3].status = LogStatusFailed

(***************************************************************************)
(* C30: in a hosted-job run, however the JWT-expiry goroutine interleaves  *)
(* with the main flow, CancelJob is called at most once, and never after   *)
(* the Cleaned event has been sent.                                        *)
(***************************************************************************)
CancelledAtMostOnce == Len(cancels) <= 1

C30_CancelOnceAndBeforeCleaned ==
    /\ CancelledAtMostOnce
    /\ \A i \in DOMAIN cancels : ~cancels[i].afterCleaned
====
